---- MODULE Spec2Model ----
(***************************************************************************)
(* The Sudoku tutor engine of sudokusolver/: the Grid model, the 21        *)
(* strategy detectors of sudoku_tutor.py, and the three driver loops that  *)
(* run them (solve in sudoku_tutor.py, _rate_difficulty in                 *)
(* sudoku_generator.py, SudokuApp._compute_worker in sudoku_gui.py).       *)
(*                                                                         *)
(* Rows, columns and boxes are numbered 0..8 and digits 1..9 as in the     *)
(* source; 0 is an empty cell.  A cell is the pair <<r, c>>.  A Python     *)
(* list that is only iterated to build another list or set is a set here;  *)
(* where the code returns the FIRST hit of a scan, the scan order of the   *)
(* code is kept (houses in get_houses order, combinations in the           *)
(* lexicographic order of itertools.combinations, digits ascending).       *)
(* Candidate sets are Python sets of small ints built by                   *)
(* set(range(1, 10)) and only shrunk by discard, which CPython iterates in *)
(* ascending order.                                                        *)
(***************************************************************************)
EXTENDS Integers, Sequences, FiniteSets, TLC

VARIABLES
    driver,          \* which entry point runs: "solve", "rate" or "gui"
    initial_values,  \* the 9x9 values the Grid was constructed from
    values,          \* Grid.values
    givens,          \* Grid.givens
    candidates,      \* Grid.candidates
    pc,              \* "start", "loop" (inside while/for) or "done"
    pos,             \* position in ALL_STRATEGIES the for loop is at (1..22)
    steps,           \* the Steps emitted so far, in order
    max_tier,        \* _rate_difficulty: max_tier
    stuck,           \* the driver gave up (gui: self.stuck)
    conflict_cells,  \* gui: self.conflict_cells
    rated,           \* the rating: return value of _rate_difficulty, or
                     \* self.difficulty of the gui; -1 while there is none
    run,             \* 1 in the first run of the driver, 2 in a second run
                     \* from the same initial values
    first_run,       \* the steps and the rating the first run ended with
    bt_fn,           \* the backtracker that runs: "_has_unique_solution",
                     \* "_bt_solve" or "solve_sudoku"
    bt_input,        \* the grid the caller passed to it
    bt_work,         \* _has_unique_solution: work; solve_sudoku: board;
                     \* _bt_solve: the grid of the innermost call
    bt_stack,        \* the calls that are inside their  for d  loop, outermost
                     \* first: the cell, the digits not tried yet, the grid
    bt_count,        \* _has_unique_solution: count[0]
    bt_pc,           \* "call": a call begins; "ret": a call has returned;
                     \* "done"; "idle" when no backtracker runs
    bt_ret,          \* the value the last call returned
    bt_result,       \* the value the backtracker returned to its caller
    gen_pc,          \* generate_puzzle: "for" (top of the attempt loop),
                     \* "punch" (top of the cell loop), "check" (inside
                     \* _has_unique_solution), "punched" (after the cell
                     \* loop), "rate" (inside _rate_difficulty), "done";
                     \* "idle" when no generator runs
    target_tier,     \* generate_puzzle: target_tier
    max_attempts,    \* generate_puzzle: max_attempts
    seed,            \* generate_puzzle: seed
    attempt,         \* the number of attempts begun (attempt + 1 of the code)
    puzzle,          \* generate_puzzle: puzzle
    cell_order,      \* generate_puzzle: cells, after the shuffle
    cell_no,         \* the position in cells the cell loop is at (1..82)
    empty_count,     \* generate_puzzle: empty_count
    saved,           \* generate_puzzle: saved
    gen_result,      \* what generate_puzzle returned: a puzzle (ok) or None
    gen_call,        \* 1 in the first call of generate_puzzle, 2 in a second
                     \* call with the same target_tier and seed
    first_call,      \* max_attempts, the number of attempts and the result
                     \* of the first call
    self,            \* the SudokuApp: the fields the worker threads and the
                     \* UI thread share
    workers,         \* the worker threads started so far, oldest first:
                     \* where each one is and its locals
    ui_pc,           \* the UI thread: "run" inside the main loop, "raised"
                     \* when an IndexError has ended it; "idle" when no
                     \* SudokuApp runs
    file_values,     \* the values _prompt_save_file writes
    file_text,       \* the characters of the puzzle file
    file_first,      \* the characters the first save wrote
    file_read,       \* what read_puzzle returned: a board (ok) or None
    file_pc          \* "save", "read", "save again", "done"; "idle" when no
                     \* file is written

drivervars == <<driver, initial_values, values, givens, candidates, pc, pos,
                steps, max_tier, stuck, conflict_cells, rated, run, first_run>>

searchvars == <<bt_fn, bt_input, bt_work, bt_stack, bt_count, bt_pc, bt_ret,
                bt_result>>

genvars == <<gen_pc, target_tier, max_attempts, seed, attempt, puzzle,
             cell_order, cell_no, empty_count, saved, gen_result, gen_call,
             first_call>>

appvars == <<self, workers, ui_pc>>

filevars == <<file_values, file_text, file_first, file_read, file_pc>>

vars == <<drivervars, searchvars, genvars, appvars, filevars>>

Idx    == 0..8
Digits == 1..9
Cells  == Idx \X Idx

----------------------------------------------------------------------------
(* Small helpers *)

Min(S) == CHOOSE x \in S : \A y \in S : x <= y
Max(S) == CHOOSE x \in S : \A y \in S : x >= y

\* S and T are distinct sets of integers of the same size: the sorted tuple
\* of S comes before the sorted tuple of T in lexicographic order
\* (the order in which itertools.combinations yields them).
LexLess(S, T) == Min((S \ T) \cup (T \ S)) \in S

\* the first combination, in itertools.combinations order, of a non-empty set
\* of equal-size index sets
FirstCombo(SS) == CHOOSE S \in SS : \A T \in SS : T = S \/ LexLess(S, T)

\* all subsets of S with exactly n elements
Combos(S, n) == {T \in SUBSET S : Cardinality(T) = n}

Range(f) == {f[i] : i \in DOMAIN f}

----------------------------------------------------------------------------
(* Grid *)

box_of(r, c) == (r \div 3) * 3 + (c \div 3)

cells_of_box(box) ==
    [i \in 1..9 |-> <<(box \div 3) * 3 + ((i - 1) \div 3),
                      (box % 3) * 3 + ((i - 1) % 3)>>]

\* the 27 houses in the order of Grid.get_houses: rows, columns, boxes
get_houses ==
    [h \in 1..27 |->
        IF h <= 9 THEN [htype |-> "row", hidx |-> h - 1,
                        cells |-> [i \in 1..9 |-> <<h - 1, i - 1>>]]
        ELSE IF h <= 18 THEN [htype |-> "col", hidx |-> h - 10,
                        cells |-> [i \in 1..9 |-> <<i - 1, h - 10>>]]
        ELSE [htype |-> "box", hidx |-> h - 19, cells |-> cells_of_box(h - 19)]]

cell_sees(r1, c1, r2, c2) ==
    /\ <<r1, c1>> # <<r2, c2>>
    /\ (r1 = r2 \/ c1 = c2 \/ box_of(r1, c1) = box_of(r2, c2))

Sees(p, q) == cell_sees(p[1], p[2], q[1], q[2])

all_peers(r, c) == {q \in Cells : cell_sees(r, c, q[1], q[2])}

\* _remove_from_peers that forgets the peers of the box
remove_from_row_col(cands, r, c, d) ==
    [r2 \in Idx |-> [c2 \in Idx |->
        IF <<r, c>> # <<r2, c2>> /\ (r = r2 \/ c = c2)
        THEN cands[r2][c2] \ {d} ELSE cands[r2][c2]]]

\* Grid._remove_from_peers on a candidates array
remove_from_peers(cands, r, c, d) ==
    [r2 \in Idx |-> [c2 \in Idx |->
        IF cell_sees(r, c, r2, c2) THEN cands[r2][c2] \ {d} ELSE cands[r2][c2]]]

\* an _init_candidates that gives every empty cell all nine digits
init_candidates_all(vals) ==
    [r \in Idx |-> [c \in Idx |-> IF vals[r][c] = 0 THEN Digits ELSE {}]]

\* Grid._init_candidates: 1..9 for every empty cell, then every filled
\* cell's digit is discarded from its peers
init_candidates(vals) ==
    [r \in Idx |-> [c \in Idx |->
        IF vals[r][c] = 0
        THEN Digits \ {vals[q[1]][q[2]] : q \in all_peers(r, c)}
        ELSE {}]]

\* Grid.__init__: the grid as a record of its three arrays
Grid(vals) ==
    [values     |-> vals,
     givens     |-> [r \in Idx |-> [c \in Idx |-> vals[r][c] # 0]],
     candidates |-> init_candidates(vals)]

is_solved(grid) == \A r \in Idx, c \in Idx : grid.values[r][c] # 0

empty_cells(grid) == {p \in Cells : grid.values[p[1]][p[2]] = 0}

Val(grid, p)  == grid.values[p[1]][p[2]]
Cand(grid, p) == grid.candidates[p[1]][p[2]]

\* a Step: strategy name, list of placements, eliminations; None is "no step"
None == [strategy |-> "None", placements |-> <<>>, eliminations |-> {}]
Step(strategy, placements, eliminations) ==
    [strategy |-> strategy, placements |-> placements,
     eliminations |-> eliminations]

RECURSIVE apply_placements(_, _, _)
apply_placements(grid, placements, i) ==
    IF i > Len(placements) THEN grid
    ELSE LET r == placements[i][1]
             c == placements[i][2]
             d == placements[i][3]
             cleared == [grid.candidates EXCEPT ![r][c] = {}]
         IN apply_placements(
                [grid EXCEPT !.values[r][c] = d,
                             !.candidates = remove_from_peers(cleared, r, c, d)],
                placements, i + 1)

\* an apply_step that marks every cell it fills as a given
apply_step_marks_givens(grid, step) ==
    LET elim == [r \in Idx |-> [c \in Idx |->
                    grid.candidates[r][c]
                        \ {d \in Digits : <<r, c, d>> \in step.eliminations}]]
        g == apply_placements([grid EXCEPT !.candidates = elim],
                              step.placements, 1)
    IN [g EXCEPT !.givens = [r \in Idx |-> [c \in Idx |-> g.values[r][c] # 0]]]

\* Grid.apply_step: discard the eliminations, then make the placements
apply_step(grid, step) ==
    LET elim == [r \in Idx |-> [c \in Idx |->
                    grid.candidates[r][c]
                        \ {d \in Digits : <<r, c, d>> \in step.eliminations}]]
    IN apply_placements([grid EXCEPT !.candidates = elim], step.placements, 1)

----------------------------------------------------------------------------
(* Tier 1 detectors *)

\* set.pop() of CPython on the set  set(range(1, 10)) - placed : the member
\* in the lowest slot of the hash table (8 slots up to four members, where
\* 8 hashes to slot 0 and 1, 9 to slot 1; 32 slots from five members on)
pop(M) ==
    IF Cardinality(M) <= 4 /\ 8 \in M THEN 8
    ELSE IF 1 \in M THEN 1
    ELSE IF Cardinality(M) <= 4 /\ 9 \in M THEN 9
    ELSE Min(M)

HouseEmpty(grid, h) ==
    {i \in 1..9 : Val(grid, get_houses[h].cells[i]) = 0}

find_full_house(grid) ==
    LET hs == {h \in 1..27 : Cardinality(HouseEmpty(grid, h)) = 1}
    IN IF hs = {} THEN None
       ELSE LET h      == Min(hs)
                cells  == get_houses[h].cells
                p      == cells[CHOOSE i \in HouseEmpty(grid, h) : TRUE]
                placed == {Val(grid, cells[i]) : i \in 1..9} \ {0}
                d      == pop(Digits \ placed)
            IN Step("Full House", <<<<p[1], p[2], d>>>>, {})

find_naked_single(grid) ==
    LET singles == {p \in Cells : Val(grid, p) = 0
                                  /\ Cardinality(Cand(grid, p)) = 1}
    IN IF singles = {} THEN None
       ELSE LET r == Min({p[1] : p \in singles})
                c == Min({p[2] : p \in {q \in singles : q[1] = r}})
                d == CHOOSE x \in grid.candidates[r][c] : TRUE
            IN Step("Naked Single", <<<<r, c, d>>>>, {})

\* positions (indices 1..9 into the house's cell list) where d is a candidate
Positions(grid, h, d) ==
    {i \in 1..9 : /\ Val(grid, get_houses[h].cells[i]) = 0
                  /\ d \in Cand(grid, get_houses[h].cells[i])}

find_hidden_single(grid) ==
    LET hits == {hd \in (1..27) \X Digits :
                    Cardinality(Positions(grid, hd[1], hd[2])) = 1}
    IN IF hits = {} THEN None
       ELSE LET h == Min({hd[1] : hd \in hits})
                d == Min({hd[2] : hd \in {x \in hits : x[1] = h}})
                p == get_houses[h].cells[CHOOSE i \in Positions(grid, h, d) : TRUE]
            IN Step("Hidden Single", <<<<p[1], p[2], d>>>>, {})

----------------------------------------------------------------------------
(* Tier 2 detectors *)

\* the first pair of a non-empty set of pairs: lowest first component, then
\* lowest second component (an outer loop over [1], an inner loop over [2])
FirstPair(S) ==
    LET a == Min({x[1] : x \in S})
    IN <<a, Min({x[2] : x \in {y \in S : y[1] = a}})>>

_SET_NAMES(size) ==
    IF size = 2 THEN "Pair" ELSE IF size = 3 THEN "Triple" ELSE "Quad"

\* find_naked_set, one house and one combination (a set of positions 1..9)
NakedUnion(grid, h, combo) ==
    UNION {Cand(grid, get_houses[h].cells[i]) : i \in combo}

NakedElims(grid, h, combo) ==
    LET cells == get_houses[h].cells
        union == NakedUnion(grid, h, combo)
    IN {<<cells[i][1], cells[i][2], d>> :
            <<i, d>> \in {x \in ((1..9) \ combo) \X union :
                            /\ Val(grid, cells[x[1]]) = 0
                            /\ x[2] \in Cand(grid, cells[x[1]])}}

\* the combinations of find_naked_set without the test  if eliminations
NakedCombosAny(grid, h, size) ==
    LET cells == get_houses[h].cells
        empty == {i \in 1..9 :
                    /\ Val(grid, cells[i]) = 0
                    /\ 1 < Cardinality(Cand(grid, cells[i]))
                    /\ Cardinality(Cand(grid, cells[i])) <= size}
    IN {combo \in Combos(empty, size) :
            Cardinality(NakedUnion(grid, h, combo)) = size}

NakedCombos(grid, h, size) ==
    LET cells == get_houses[h].cells
        empty == {i \in 1..9 :
                    /\ Val(grid, cells[i]) = 0
                    /\ 1 < Cardinality(Cand(grid, cells[i]))
                    /\ Cardinality(Cand(grid, cells[i])) <= size}
    IN {combo \in Combos(empty, size) :
            /\ Cardinality(NakedUnion(grid, h, combo)) = size
            /\ NakedElims(grid, h, combo) # {}}

find_naked_set(grid, size) ==
    LET hs == {h \in 1..27 : NakedCombos(grid, h, size) # {}}
    IN IF hs = {} THEN None
       ELSE LET h     == Min(hs)
                combo == FirstCombo(NakedCombos(grid, h, size))
            IN Step("Naked " \o _SET_NAMES(size), <<>>,
                    NakedElims(grid, h, combo))

\* find_hidden_set, one house and one combination of digits
HiddenCellUnion(grid, h, digit_combo) ==
    UNION {Positions(grid, h, d) : d \in digit_combo}

HiddenElims(grid, h, digit_combo) ==
    LET cells == get_houses[h].cells
    IN {<<cells[i][1], cells[i][2], d>> :
            <<i, d>> \in {x \in HiddenCellUnion(grid, h, digit_combo) \X Digits :
                            /\ x[2] \in Cand(grid, cells[x[1]])
                            /\ x[2] \notin digit_combo}}

HiddenCombos(grid, h, size) ==
    LET digit_cells == {d \in Digits :
                          /\ 2 <= Cardinality(Positions(grid, h, d))
                          /\ Cardinality(Positions(grid, h, d)) <= size}
    IN IF Cardinality(digit_cells) < size THEN {}
       ELSE {digit_combo \in Combos(digit_cells, size) :
               /\ Cardinality(HiddenCellUnion(grid, h, digit_combo)) = size
               /\ HiddenElims(grid, h, digit_combo) # {}}

find_hidden_set(grid, size) ==
    LET hs == {h \in 1..27 : HiddenCombos(grid, h, size) # {}}
    IN IF hs = {} THEN None
       ELSE LET h           == Min(hs)
                digit_combo == FirstCombo(HiddenCombos(grid, h, size))
            IN Step("Hidden " \o _SET_NAMES(size), <<>>,
                    HiddenElims(grid, h, digit_combo))

\* cells of the grid that are empty and have d as a candidate
HasCand(grid, p, d) == Val(grid, p) = 0 /\ d \in Cand(grid, p)

\* find_pointing_pairs, one box and one digit
PointingPositions(grid, box, d) ==
    {p \in Range(cells_of_box(box)) : HasCand(grid, p, d)}

PointingElims(grid, box, d) ==
    LET positions == PointingPositions(grid, box, d)
        rows_used == {p[1] : p \in positions}
        cols_used == {p[2] : p \in positions}
    IN IF Cardinality(positions) < 2 \/ Cardinality(positions) > 3 THEN {}
       ELSE IF Cardinality(rows_used) = 1
                /\ \E col \in Idx :
                      /\ box_of(Min(rows_used), col) # box
                      /\ HasCand(grid, <<Min(rows_used), col>>, d)
       THEN {<<Min(rows_used), col, d>> : col \in {c \in Idx :
                      /\ box_of(Min(rows_used), c) # box
                      /\ HasCand(grid, <<Min(rows_used), c>>, d)}}
       ELSE IF Cardinality(cols_used) = 1
       THEN {<<rr, Min(cols_used), d>> : rr \in {r \in Idx :
                      /\ box_of(r, Min(cols_used)) # box
                      /\ HasCand(grid, <<r, Min(cols_used)>>, d)}}
       ELSE {}

find_pointing_pairs(grid) ==
    LET hits == {bd \in Idx \X Digits : PointingElims(grid, bd[1], bd[2]) # {}}
    IN IF hits = {} THEN None
       ELSE LET bd == FirstPair(hits)
                n  == Cardinality(PointingPositions(grid, bd[1], bd[2]))
            IN Step(IF n = 2 THEN "Pointing Pair" ELSE "Pointing Triple",
                    <<>>, PointingElims(grid, bd[1], bd[2]))

\* find_box_line_reduction, one row or column (h in 1..18) and one digit
BoxLineElims(grid, h, d) ==
    LET positions  == {get_houses[h].cells[i] : i \in Positions(grid, h, d)}
        boxes_used == {box_of(p[1], p[2]) : p \in positions}
    IN IF Cardinality(positions) < 2 \/ Cardinality(boxes_used) # 1 THEN {}
       ELSE {<<p[1], p[2], d>> :
                p \in {q \in Range(cells_of_box(Min(boxes_used))) :
                          q \notin positions /\ HasCand(grid, q, d)}}

find_box_line_reduction(grid) ==
    LET hits == {hd \in (1..18) \X Digits : BoxLineElims(grid, hd[1], hd[2]) # {}}
    IN IF hits = {} THEN None
       ELSE LET hd == FirstPair(hits)
            IN Step("Box-Line Reduction", <<>>, BoxLineElims(grid, hd[1], hd[2]))

----------------------------------------------------------------------------
(* Tier 3 detectors *)

\* columns of row r (rows of column c) where d is a candidate
ColsOf(grid, d, r) == {c \in Idx : HasCand(grid, <<r, c>>, d)}
RowsOf(grid, d, c) == {r \in Idx : HasCand(grid, <<r, c>>, d)}

\* find_x_wing, digit d, rows as base lines
XWingRowElims(grid, d, r1, r2) ==
    IF Cardinality(ColsOf(grid, d, r1)) = 2
       /\ ColsOf(grid, d, r1) = ColsOf(grid, d, r2)
    THEN {<<r, col, d>> : <<r, col>> \in {x \in Idx \X ColsOf(grid, d, r1) :
                            x[1] \notin {r1, r2} /\ HasCand(grid, x, d)}}
    ELSE {}

\* find_x_wing, digit d, columns as base lines
XWingColElims(grid, d, c1, c2) ==
    IF Cardinality(RowsOf(grid, d, c1)) = 2
       /\ RowsOf(grid, d, c1) = RowsOf(grid, d, c2)
    THEN {<<row, col, d>> : <<row, col>> \in {x \in RowsOf(grid, d, c1) \X Idx :
                            x[2] \notin {c1, c2} /\ HasCand(grid, x, d)}}
    ELSE {}

XWingRowHits(grid, d) ==
    {x \in Idx \X Idx : x[1] < x[2] /\ XWingRowElims(grid, d, x[1], x[2]) # {}}

XWingColHits(grid, d) ==
    {x \in Idx \X Idx : x[1] < x[2] /\ XWingColElims(grid, d, x[1], x[2]) # {}}

find_x_wing(grid) ==
    LET ds == {d \in Digits : XWingRowHits(grid, d) # {} \/ XWingColHits(grid, d) # {}}
    IN IF ds = {} THEN None
       ELSE LET d == Min(ds)
            IN IF XWingRowHits(grid, d) # {}
               THEN LET x == FirstPair(XWingRowHits(grid, d))
                    IN Step("X-Wing", <<>>, XWingRowElims(grid, d, x[1], x[2]))
               ELSE LET x == FirstPair(XWingColHits(grid, d))
                    IN Step("X-Wing", <<>>, XWingColElims(grid, d, x[1], x[2]))

\* find_swordfish, digit d, a set of three base rows
SwordRowElims(grid, d, rs) ==
    LET cover == UNION {ColsOf(grid, d, r) : r \in rs}
    IN IF Cardinality(cover) = 3
       THEN {<<r, c, d>> : <<r, c>> \in {x \in Idx \X cover :
                            x[1] \notin rs /\ HasCand(grid, x, d)}}
       ELSE {}

\* find_swordfish, digit d, a set of three base columns
SwordColElims(grid, d, cs) ==
    LET cover == UNION {RowsOf(grid, d, c) : c \in cs}
    IN IF Cardinality(cover) = 3
       THEN {<<r, c, d>> : <<r, c>> \in {x \in cover \X Idx :
                            x[2] \notin cs /\ HasCand(grid, x, d)}}
       ELSE {}

SwordRowHits(grid, d) ==
    LET row_cols == {r \in Idx : /\ 2 <= Cardinality(ColsOf(grid, d, r))
                                 /\ Cardinality(ColsOf(grid, d, r)) <= 3}
    IN {rs \in Combos(row_cols, 3) : SwordRowElims(grid, d, rs) # {}}

SwordColHits(grid, d) ==
    LET col_rows == {c \in Idx : /\ 2 <= Cardinality(RowsOf(grid, d, c))
                                 /\ Cardinality(RowsOf(grid, d, c)) <= 3}
    IN {cs \in Combos(col_rows, 3) : SwordColElims(grid, d, cs) # {}}

find_swordfish(grid) ==
    LET ds == {d \in Digits : SwordRowHits(grid, d) # {} \/ SwordColHits(grid, d) # {}}
    IN IF ds = {} THEN None
       ELSE LET d == Min(ds)
            IN IF SwordRowHits(grid, d) # {}
               THEN Step("Swordfish", <<>>,
                         SwordRowElims(grid, d, FirstCombo(SwordRowHits(grid, d))))
               ELSE Step("Swordfish", <<>>,
                         SwordColElims(grid, d, FirstCombo(SwordColHits(grid, d))))

\* cells in row-major order are numbered 0..80
CellIdx(p) == 9 * p[1] + p[2]
CellAt(n)  == <<n \div 9, n % 9>>

\* empty cells with exactly n candidates, as cell numbers
CellsWith(grid, n) ==
    {CellIdx(p) : p \in {q \in Cells : Val(grid, q) = 0
                                       /\ Cardinality(Cand(grid, q)) = n}}

\* find_y_wing: eliminations of pivot np with wings n1 < n2 (cell numbers),
\* empty when the three cells are no Y-Wing
YWingElims(grid, np, n1, n2) ==
    LET AB     == Cand(grid, CellAt(np))
        cands1 == Cand(grid, CellAt(n1))
        cands2 == Cand(grid, CellAt(n2))
        C_set  == (cands1 \cup cands2) \ AB
    IN IF \/ (cands1 \cap AB) = (cands2 \cap AB)
          \/ Cardinality(C_set) # 1
          \/ ~ (C_set \subseteq cands1 /\ C_set \subseteq cands2)
       THEN {}
       ELSE {<<p[1], p[2], Min(C_set)>> : p \in {q \in empty_cells(grid) :
                /\ CellIdx(q) \notin {np, n1, n2}
                /\ Min(C_set) \in Cand(grid, q)
                /\ Sees(q, CellAt(n1))
                /\ Sees(q, CellAt(n2))}}

YWingPairs(grid, np) ==
    LET AB    == Cand(grid, CellAt(np))
        wings == {n \in CellsWith(grid, 2) :
                    /\ n # np
                    /\ Sees(CellAt(np), CellAt(n))
                    /\ Cardinality(Cand(grid, CellAt(n)) \cap AB) = 1}
    IN {x \in wings \X wings :
            x[1] < x[2] /\ YWingElims(grid, np, x[1], x[2]) # {}}

find_y_wing(grid) ==
    LET pivots == {np \in CellsWith(grid, 2) : YWingPairs(grid, np) # {}}
    IN IF pivots = {} THEN None
       ELSE LET np == Min(pivots)
                x  == FirstPair(YWingPairs(grid, np))
            IN Step("Y-Wing", <<>>, YWingElims(grid, np, x[1], x[2]))

\* find_xyz_wing: eliminations of pivot np with wings n1 < n2
XYZWingElims(grid, np, n1, n2) ==
    LET pivot_cands == Cand(grid, CellAt(np))
        cands1      == Cand(grid, CellAt(n1))
        cands2      == Cand(grid, CellAt(n2))
        shared      == cands1 \cap cands2
    IN IF (cands1 \cup cands2) # pivot_cands \/ Cardinality(shared) # 1
       THEN {}
       ELSE {<<p[1], p[2], Min(shared)>> : p \in {q \in empty_cells(grid) :
                /\ CellIdx(q) \notin {np, n1, n2}
                /\ Min(shared) \in Cand(grid, q)
                /\ Sees(q, CellAt(np))
                /\ Sees(q, CellAt(n1))
                /\ Sees(q, CellAt(n2))}}

XYZWingPairs(grid, np) ==
    LET wings == {n \in CellsWith(grid, 2) :
                    /\ Sees(CellAt(np), CellAt(n))
                    /\ Cand(grid, CellAt(n)) \subseteq Cand(grid, CellAt(np))}
    IN {x \in wings \X wings :
            x[1] < x[2] /\ XYZWingElims(grid, np, x[1], x[2]) # {}}

find_xyz_wing(grid) ==
    LET pivots == {np \in CellsWith(grid, 3) : XYZWingPairs(grid, np) # {}}
    IN IF pivots = {} THEN None
       ELSE LET np == Min(pivots)
                x  == FirstPair(XYZWingPairs(grid, np))
            IN Step("XYZ-Wing", <<>>, XYZWingElims(grid, np, x[1], x[2]))

\* find_simple_coloring: the houses where d has exactly two positions
ConjHouses(grid, d) ==
    {h \in 1..27 : Cardinality(Positions(grid, h, d)) = 2}

\* the two cells of such a house
ConjPair(grid, d, h) == {get_houses[h].cells[i] : i \in Positions(grid, h, d)}

\* breadth-first colouring from start over the graph links: a cell is blue
\* (True) iff its distance from start is even; the result is <<blue, green>>
RECURSIVE Colour(_, _, _, _, _)
Colour(links, frontier, blue, green, isBlue) ==
    IF frontier = {} THEN <<blue, green>>
    ELSE LET blue2  == IF isBlue THEN blue \cup frontier ELSE blue
             green2 == IF isBlue THEN green ELSE green \cup frontier
             next   == UNION {links[p] : p \in frontier} \ (blue2 \cup green2)
         IN Colour(links, next, blue2, green2, ~isBlue)

SameColourClash(same_cells) ==
    \E p \in same_cells, q \in same_cells : Sees(p, q)

\* the step of one component <<blue, green>>, or None
ColouringOf(grid, d, blue, green) ==
    IF SameColourClash(blue)
    THEN Step("Simple Coloring", <<>>,
              {<<p[1], p[2], d>> : p \in {q \in blue : d \in Cand(grid, q)}})
    ELSE IF SameColourClash(green)
    THEN Step("Simple Coloring", <<>>,
              {<<p[1], p[2], d>> : p \in {q \in green : d \in Cand(grid, q)}})
    ELSE LET elims == {q \in empty_cells(grid) :
                         /\ q \notin blue \cup green
                         /\ d \in Cand(grid, q)
                         /\ \E b \in blue : Sees(q, b)
                         /\ \E g \in green : Sees(q, g)}
         IN IF elims = {} THEN None
            ELSE Step("Simple Coloring", <<>>, {<<p[1], p[2], d>> : p \in elims})

\* the components of the graph in the order of their first key: rank[p] is
\* the place of key p in the dict links
RECURSIVE ColouringFrom(_, _, _, _, _)
ColouringFrom(grid, d, links, rank, unvisited) ==
    IF unvisited = {} THEN None
    ELSE LET first == Min({rank[p] : p \in unvisited})
             start == CHOOSE p \in unvisited : rank[p] = first
             bg    == Colour(links, {start}, {}, {}, TRUE)
             step  == ColouringOf(grid, d, bg[1], bg[2])
         IN IF step # None THEN step
            ELSE ColouringFrom(grid, d, links, rank, unvisited \ (bg[1] \cup bg[2]))

\* one digit: links maps each cell of a conjugate pair to its partners; keys
\* enter the dict house by house, the first position before the second
ColouringDigit(grid, d) ==
    LET conj  == ConjHouses(grid, d)
        keys  == UNION {ConjPair(grid, d, h) : h \in conj}
        links == [p \in keys |->
                    UNION {ConjPair(grid, d, h) \ {p} :
                              h \in {k \in conj : p \in ConjPair(grid, d, k)}}]
        rank  == [p \in keys |->
                    Min({2 * h + (IF get_houses[h].cells[Min(Positions(grid, h, d))] = p
                                  THEN 0 ELSE 1) :
                            h \in {k \in conj : p \in ConjPair(grid, d, k)}})]
    IN IF Cardinality(keys) < 4 THEN None
       ELSE ColouringFrom(grid, d, links, rank, keys)

find_simple_coloring(grid) ==
    LET ds == {d \in Digits : ColouringDigit(grid, d) # None}
    IN IF ds = {} THEN None ELSE ColouringDigit(grid, Min(ds))

----------------------------------------------------------------------------
(* Tier 4 detectors *)

\* the cells of the grid that see both p and q
SeesBoth(grid, p, q, d) ==
    {x \in Cells : HasCand(grid, x, d) /\ Sees(x, p) /\ Sees(x, q)}

\* the rectangles <<r1, r2, c1, c2>> (r1 < r2, c1 < c2) that span exactly
\* two boxes
Rects ==
    {x \in Idx \X Idx \X Idx \X Idx :
        /\ x[1] < x[2] /\ x[3] < x[4]
        /\ Cardinality({box_of(x[1], x[3]), box_of(x[1], x[4]),
                        box_of(x[2], x[3]), box_of(x[2], x[4])}) = 2}

RectCells(x) == {<<x[1], x[3]>>, <<x[1], x[4]>>, <<x[2], x[3]>>, <<x[2], x[4]>>}

\* find_unique_rectangle: eliminations for the digit pair and one rectangle
URElims(grid, pair, x) ==
    LET cells == RectCells(x)
    IN IF ~ \A p \in cells : Val(grid, p) = 0 /\ pair \subseteq Cand(grid, p)
       THEN {}
       ELSE LET floors == {p \in cells : Cand(grid, p) = pair}
                roofs  == {p \in cells : Cand(grid, p) # pair}
            IN IF Cardinality(floors) = 3 /\ Cardinality(roofs) = 1
               THEN {<<p[1], p[2], d>> : <<p, d>> \in roofs \X pair}
               ELSE IF Cardinality(floors) = 2 /\ Cardinality(roofs) = 2
               THEN LET extras == {Cand(grid, p) \ pair : p \in roofs}
                    IN IF Cardinality(extras) = 1
                          /\ \A e \in extras : Cardinality(e) = 1
                       THEN LET X == Min(UNION extras)
                            IN {<<p[1], p[2], X>> : p \in {q \in Cells :
                                   /\ q \notin cells
                                   /\ HasCand(grid, q, X)
                                   /\ \A roof \in roofs : Sees(q, roof)}}
                       ELSE {}
               ELSE {}

\* the candidates common to the four corners, {} unless all four are empty
RectCommon(grid, x) ==
    IF \E p \in RectCells(x) : Val(grid, p) # 0 THEN {}
    ELSE Cand(grid, <<x[1], x[3]>>) \cap Cand(grid, <<x[1], x[4]>>)
            \cap Cand(grid, <<x[2], x[3]>>) \cap Cand(grid, <<x[2], x[4]>>)

\* the order of the loops: digit pairs d1 < d2, then r1 < r2, then c1 < c2
URKey(d1, d2, x) ==
    ((((d1 * 10 + d2) * 9 + x[1]) * 9 + x[2]) * 9 + x[3]) * 9 + x[4]

\* the <<d1, d2, rectangle>> for which the code would return a step
URHits(grid) ==
    UNION {{<<dd[1], dd[2], x>> :
               dd \in {y \in RectCommon(grid, x) \X RectCommon(grid, x) :
                          y[1] < y[2] /\ URElims(grid, {y[1], y[2]}, x) # {}}} :
           x \in {z \in Rects : Cardinality(RectCommon(grid, z)) >= 2}}

find_unique_rectangle(grid) ==
    LET hits == URHits(grid)
    IN IF hits = {} THEN None
       ELSE LET first == Min({URKey(y[1], y[2], y[3]) : y \in hits})
                y     == CHOOSE z \in hits : URKey(z[1], z[2], z[3]) = first
            IN Step("Unique Rectangle", <<>>, URElims(grid, {y[1], y[2]}, y[3]))

\* find_w_wing: some house holds bridge_digit in exactly two cells, one
\* seeing p1 and the other seeing p2
HasBridge(grid, p1, p2, bridge_digit) ==
    \E h \in 1..27 :
        LET positions == Positions(grid, h, bridge_digit)
        IN /\ Cardinality(positions) = 2
           /\ LET l == get_houses[h].cells[Min(positions)]
                  r == get_houses[h].cells[Max(positions)]
              IN \/ (Sees(l, p1) /\ Sees(r, p2))
                 \/ (Sees(l, p2) /\ Sees(r, p1))

WWingElims(grid, p1, p2, elim_digit) ==
    {<<x[1], x[2], elim_digit>> : x \in SeesBoth(grid, p1, p2, elim_digit) \ {p1, p2}}

\* the eliminations of the pair n1 < n2 of bi-value cells: bridge A (the
\* smaller candidate) is tried before bridge B
WWingOf(grid, n1, n2) ==
    LET p1 == CellAt(n1)
        p2 == CellAt(n2)
        A  == Min(Cand(grid, p1))
        B  == Max(Cand(grid, p1))
    IN IF Cand(grid, p1) # Cand(grid, p2) \/ Sees(p1, p2) THEN {}
       ELSE IF HasBridge(grid, p1, p2, A) /\ WWingElims(grid, p1, p2, B) # {}
       THEN WWingElims(grid, p1, p2, B)
       ELSE IF HasBridge(grid, p1, p2, B) /\ WWingElims(grid, p1, p2, A) # {}
       THEN WWingElims(grid, p1, p2, A)
       ELSE {}

find_w_wing(grid) ==
    LET bivs == CellsWith(grid, 2)
        hits == {x \in bivs \X bivs : x[1] < x[2] /\ WWingOf(grid, x[1], x[2]) # {}}
    IN IF hits = {} THEN None
       ELSE LET x == FirstPair(hits)
            IN Step("W-Wing", <<>>, WWingOf(grid, x[1], x[2]))

\* find_skyscraper, digit d, rows ra < rb
SkyRowElims(grid, d, ra, rb) ==
    LET colsa  == ColsOf(grid, d, ra)
        colsb  == ColsOf(grid, d, rb)
        shared == colsa \cap colsb
    IN IF Cardinality(colsa) # 2 \/ Cardinality(colsb) # 2
          \/ Cardinality(shared) # 1
       THEN {}
       ELSE LET sc     == Min(shared)
                roof_a == <<ra, Min(colsa \ shared)>>
                roof_b == <<rb, Min(colsb \ shared)>>
            IN IF box_of(roof_a[1], roof_a[2]) = box_of(roof_b[1], roof_b[2])
               THEN {}
               ELSE {<<x[1], x[2], d>> : x \in SeesBoth(grid, roof_a, roof_b, d)
                        \ {<<ra, sc>>, <<rb, sc>>, roof_a, roof_b}}

\* find_skyscraper, digit d, columns ca < cb
SkyColElims(grid, d, ca, cb) ==
    LET rowsa  == RowsOf(grid, d, ca)
        rowsb  == RowsOf(grid, d, cb)
        shared == rowsa \cap rowsb
    IN IF Cardinality(rowsa) # 2 \/ Cardinality(rowsb) # 2
          \/ Cardinality(shared) # 1
       THEN {}
       ELSE LET sr     == Min(shared)
                roof_a == <<Min(rowsa \ shared), ca>>
                roof_b == <<Min(rowsb \ shared), cb>>
            IN IF box_of(roof_a[1], roof_a[2]) = box_of(roof_b[1], roof_b[2])
               THEN {}
               ELSE {<<x[1], x[2], d>> : x \in SeesBoth(grid, roof_a, roof_b, d)
                        \ {<<sr, ca>>, <<sr, cb>>, roof_a, roof_b}}

SkyRowHits(grid, d) ==
    {x \in Idx \X Idx : x[1] < x[2] /\ SkyRowElims(grid, d, x[1], x[2]) # {}}

SkyColHits(grid, d) ==
    {x \in Idx \X Idx : x[1] < x[2] /\ SkyColElims(grid, d, x[1], x[2]) # {}}

find_skyscraper(grid) ==
    LET ds == {d \in Digits : SkyRowHits(grid, d) # {} \/ SkyColHits(grid, d) # {}}
    IN IF ds = {} THEN None
       ELSE LET d == Min(ds)
            IN IF SkyRowHits(grid, d) # {}
               THEN LET x == FirstPair(SkyRowHits(grid, d))
                    IN Step("Skyscraper", <<>>, SkyRowElims(grid, d, x[1], x[2]))
               ELSE LET x == FirstPair(SkyColHits(grid, d))
                    IN Step("Skyscraper", <<>>, SkyColElims(grid, d, x[1], x[2]))

\* find_2_string_kite, digit d, row r and pivot column pivot_c
KiteElims(grid, d, r, pivot_c) ==
    LET row_cols == ColsOf(grid, d, r)
        col_rows == RowsOf(grid, d, pivot_c)
    IN IF Cardinality(row_cols) # 2 \/ pivot_c \notin row_cols
          \/ Cardinality(col_rows) # 2 \/ r \notin col_rows
       THEN {}
       ELSE LET tail_row == <<r, Min(row_cols \ {pivot_c})>>
                tail_col == <<Min(col_rows \ {r}), pivot_c>>
            IN IF box_of(tail_row[1], tail_row[2]) = box_of(tail_col[1], tail_col[2])
               THEN {}
               ELSE {<<x[1], x[2], d>> : x \in SeesBoth(grid, tail_row, tail_col, d)
                        \ {<<r, pivot_c>>, tail_row, tail_col}}

KiteHits(grid, d) ==
    {x \in Idx \X Idx : KiteElims(grid, d, x[1], x[2]) # {}}

find_2_string_kite(grid) ==
    LET ds == {d \in Digits : KiteHits(grid, d) # {}}
    IN IF ds = {} THEN None
       ELSE LET d == Min(ds)
                x == FirstPair(KiteHits(grid, d))
            IN Step("2-String Kite", <<>>, KiteElims(grid, d, x[1], x[2]))

\* find_bug_plus_1: the number of empty cells among cells that hold d
CountCand(grid, cells, d) == Cardinality({p \in cells : HasCand(grid, p, d)})

find_bug_plus_1(grid) ==
    LET trivalue == CellsWith(grid, 3)
    IN IF Cardinality(trivalue) # 1 THEN None
       ELSE IF \E p \in empty_cells(grid) :
                  CellIdx(p) \notin trivalue /\ Cardinality(Cand(grid, p)) # 2
       THEN None
       ELSE LET p  == CellAt(Min(trivalue))
                ok == {d \in Cand(grid, p) :
                        /\ CountCand(grid, {<<p[1], c>> : c \in Idx}, d) % 2 = 1
                        /\ CountCand(grid, {<<r, p[2]>> : r \in Idx}, d) % 2 = 1
                        /\ CountCand(grid, Range(cells_of_box(box_of(p[1], p[2]))), d) % 2 = 1}
            IN IF ok = {} THEN None
               ELSE Step("BUG+1", <<<<p[1], p[2], Min(ok)>>>>, {})

----------------------------------------------------------------------------
(* Strategy registry and tiers *)

ALL_STRATEGIES ==
    <<"Full House", "Naked Single", "Hidden Single", "Naked Pair",
      "Hidden Pair", "Naked Triple", "Hidden Triple", "Naked Quad",
      "Hidden Quad", "Pointing Pairs", "Box-Line Reduction", "X-Wing",
      "Swordfish", "Y-Wing", "XYZ-Wing", "Simple Coloring",
      "Unique Rectangle", "W-Wing", "Skyscraper", "2-String Kite", "BUG+1">>

\* the function fn of entry k of ALL_STRATEGIES, applied to the grid
Detector(k, grid) ==
    CASE k = 1  -> find_full_house(grid)
      [] k = 2  -> find_naked_single(grid)
      [] k = 3  -> find_hidden_single(grid)
      [] k = 4  -> find_naked_set(grid, 2)
      [] k = 5  -> find_hidden_set(grid, 2)
      [] k = 6  -> find_naked_set(grid, 3)
      [] k = 7  -> find_hidden_set(grid, 3)
      [] k = 8  -> find_naked_set(grid, 4)
      [] k = 9  -> find_hidden_set(grid, 4)
      [] k = 10 -> find_pointing_pairs(grid)
      [] k = 11 -> find_box_line_reduction(grid)
      [] k = 12 -> find_x_wing(grid)
      [] k = 13 -> find_swordfish(grid)
      [] k = 14 -> find_y_wing(grid)
      [] k = 15 -> find_xyz_wing(grid)
      [] k = 16 -> find_simple_coloring(grid)
      [] k = 17 -> find_unique_rectangle(grid)
      [] k = 18 -> find_w_wing(grid)
      [] k = 19 -> find_skyscraper(grid)
      [] k = 20 -> find_2_string_kite(grid)
      [] k = 21 -> find_bug_plus_1(grid)

\* STRATEGY_TIER of sudoku_generator.py
STRATEGY_TIER ==
    [name \in Range(ALL_STRATEGIES) |->
        CASE name \in {"Full House", "Naked Single", "Hidden Single"} -> 1
          [] name \in {"Naked Pair", "Hidden Pair", "Naked Triple",
                       "Hidden Triple", "Naked Quad", "Hidden Quad",
                       "Pointing Pairs", "Box-Line Reduction"} -> 2
          [] name \in {"X-Wing", "Swordfish", "Y-Wing", "XYZ-Wing",
                       "Simple Coloring"} -> 3
          [] name \in {"Unique Rectangle", "W-Wing", "Skyscraper",
                       "2-String Kite", "BUG+1"} -> 4]

\* dict.get(key, default)
Get(dict, key, default) == IF key \in DOMAIN dict THEN dict[key] ELSE default

\* _rate_difficulty: the tier of a step found by registry entry `name`
StepTier(step, name) ==
    Get(STRATEGY_TIER, step.strategy, Get(STRATEGY_TIER, name, 0))

\* STRATEGY_TIER of sudoku_gui.py: the same 21 names and two more
GUI_STRATEGY_TIER ==
    [name \in Range(ALL_STRATEGIES) \cup {"Finned X-Wing", "XY-Chain"} |->
        IF name \in {"Finned X-Wing", "XY-Chain"} THEN 5 ELSE STRATEGY_TIER[name]]

\* a rate_puzzle whose lowest rating is 1
rate_puzzle_from_one(ss) ==
    Max({1} \cup {Get(GUI_STRATEGY_TIER, ss[i].strategy, 0) : i \in 1..Len(ss)})

\* rate_puzzle of sudoku_gui.py
rate_puzzle(ss) ==
    IF ss = <<>> THEN 0
    ELSE Max({Get(GUI_STRATEGY_TIER, ss[i].strategy, 0) : i \in 1..Len(ss)})

\* validate_board of sudoku_gui.py: the cells that repeat a digit of a house
validate_board(vals) ==
    {p \in Cells : /\ vals[p[1]][p[2]] # 0
                   /\ \E q \in Cells : /\ Sees(p, q)
                                       /\ vals[q[1]][q[2]] = vals[p[1]][p[2]]}

----------------------------------------------------------------------------
(* The backtracking solvers *)

\* _candidates inside _has_unique_solution / _bt_candidates of sudoku_gui.py:
\* the digits not used in the row, the column and the box of (r, c)
_bt_candidates(grid, r, c) ==
    Digits \ ({grid[r][cc] : cc \in Idx} \cup {grid[rr][c] : rr \in Idx}
              \cup {grid[(r \div 3) * 3 + dr][(c \div 3) * 3 + dc] :
                        dr \in 0..2, dc \in 0..2})

\* the first empty cell at or after position i in the left-to-right,
\* top-to-bottom scan; 81 when there is none
first_empty(work, i) ==
    CHOOSE p \in i..81 :
        /\ p = 81 \/ work[p \div 9][p % 9] = 0
        /\ \A q \in i..(p - 1) : work[q \div 9][q % 9] # 0

\* _solve inside _has_unique_solution: count is the number of solutions
\* found so far, the result the number after this subtree; the search is cut
\* as soon as the count reaches 2.  Every cell before position i is filled.
\* The loop  for d in _candidates(r, c)  is written out digit by digit.
RECURSIVE _solve(_, _, _)
_solve(work, i, count) ==
    LET p  == first_empty(work, i)
        ds == _bt_candidates(work, p \div 9, p % 9)
        try(d, n) ==
            IF d \in ds /\ n < 2
            THEN _solve([work EXCEPT ![p \div 9][p % 9] = d], p + 1, n)
            ELSE n
        n1 == try(1, count)
        n2 == try(2, n1)
        n3 == try(3, n2)
        n4 == try(4, n3)
        n5 == try(5, n4)
        n6 == try(6, n5)
        n7 == try(7, n6)
        n8 == try(8, n7)
        n9 == try(9, n8)
    IN IF p = 81 THEN count + 1
       ELSE <<n1, n2, n3, n4, n5, n6, n7, n8, n9>>[9]

_has_unique_solution(grid) == _solve(grid, 0, 0) = 1

\* _bt_solve of sudoku_gui.py: the solved grid as a one-element set, or {}
\* for None.  The scan for the cell with the fewest candidates stops at the
\* first cell with one candidate and gives up at a cell with none.
RECURSIVE _bt_solve(_)
RECURSIVE _bt_try(_, _, _)
_bt_solve(grid) ==
    LET E       == {i \in 0..80 : grid[i \div 9][i % 9] = 0}
        n(i)    == Cardinality(_bt_candidates(grid, i \div 9, i % 9))
        count   == [i \in E |-> n(i)]
        ones    == {i \in E : count[i] = 1}
        stop    == IF ones = {} THEN 80 ELSE Min(ones)
        scanned == {i \in E : i <= stop}
    IN IF E = {} THEN {grid}
       ELSE IF \E i \in scanned : count[i] = 0 THEN {}
       ELSE LET m    == Min({count[i] : i \in scanned})
                best == Min({i \in scanned : count[i] = m})
            IN _bt_try(grid, best,
                       _bt_candidates(grid, best \div 9, best % 9))

\* the loop  for d in sorted(best_cands)
_bt_try(grid, best, ds) ==
    IF ds = {} THEN {}
    ELSE LET d      == Min(ds)
             result == _bt_solve([grid EXCEPT ![best \div 9][best % 9] = d])
         IN IF result # {} THEN result ELSE _bt_try(grid, best, ds \ {d})

----------------------------------------------------------------------------
(* The initial boards *)

\* a board written as nine rows of nine digits
Board(rows) == [r \in Idx |-> [c \in Idx |-> rows[r + 1][c + 1]]]

\* puzzles.py, "Tier 1 - Classic Easy #1": scenario S1 of the specification
ClassicEasy1 == Board(<<
    <<0,0,3,0,2,0,6,0,0>>, <<9,0,0,3,0,5,0,0,1>>, <<0,0,1,8,0,6,4,0,0>>,
    <<0,0,8,1,0,2,9,0,0>>, <<7,0,0,0,0,0,0,0,8>>, <<0,0,6,7,0,8,2,0,0>>,
    <<0,0,2,6,0,9,5,0,0>>, <<8,0,0,2,0,3,0,0,9>>, <<0,0,5,0,1,0,3,0,0>>>>)

\* puzzles.py, "Tier 1 - Easy Beginner #4": no house repeats a digit, and
\* it has no solution
EasyBeginner4 == Board(<<
    <<8,0,0,9,3,0,0,0,7>>, <<0,0,0,0,7,6,0,9,0>>, <<3,7,0,0,0,4,0,6,0>>,
    <<1,9,8,0,0,0,0,2,5>>, <<0,2,0,0,0,0,0,3,0>>, <<4,5,0,0,0,0,7,8,1>>,
    <<0,8,0,3,0,0,0,1,4>>, <<0,4,0,7,5,0,0,0,0>>, <<5,0,0,0,1,9,0,0,3>>>>)

\* puzzles.py, "Tier 2 - Moderate #5 (Naked Pairs)": its givens repeat a digit
\* in a house
Moderate5 == Board(<<
    <<1,0,0,4,8,9,0,0,6>>, <<7,2,0,0,0,0,0,8,0>>, <<0,8,0,7,0,0,0,2,5>>,
    <<0,0,0,2,0,0,0,3,0>>, <<9,4,0,0,3,0,0,5,8>>, <<0,5,0,0,0,4,0,0,0>>,
    <<3,6,0,0,0,8,0,9,0>>, <<0,1,0,0,0,0,0,3,7>>, <<2,0,0,7,9,4,0,0,1>>>>)

\* puzzles.py, "Tier 4 - Expert #5 (2-String Kite)": the driver is stuck
\* after three steps
Expert5 == Board(<<
    <<0,0,0,0,0,4,0,2,8>>, <<6,0,0,0,0,0,0,0,0>>, <<0,3,0,6,0,0,0,0,0>>,
    <<2,0,0,0,1,0,7,0,0>>, <<0,7,0,0,0,0,0,3,0>>, <<0,0,4,0,5,0,0,0,9>>,
    <<0,0,0,0,0,5,0,6,0>>, <<0,0,0,0,0,0,0,0,1>>, <<8,4,0,2,0,0,0,0,0>>>>)

\* generate_solution(seed=396) with 25 cells emptied, one solution: W-Wing,
\* Pointing Pair, Y-Wing, XYZ-Wing, Simple Coloring, Hidden Single
WWingBoard == Board(<<
    <<0,8,5,4,7,6,1,3,0>>, <<3,4,7,5,0,1,8,6,0>>, <<6,0,0,0,3,8,4,7,5>>,
    <<0,0,0,0,0,0,6,0,4>>, <<0,0,4,0,0,0,9,0,1>>, <<5,0,8,0,0,4,7,2,3>>,
    <<8,5,6,3,4,9,2,1,7>>, <<0,0,2,7,8,5,3,4,6>>, <<4,7,3,6,1,2,5,9,8>>>>)

\* "Tier 3 - Hard #6" of puzzles.py with 41 more cells filled, several
\* solutions:
\* Naked Triple, Unique Rectangle, Box-Line Reduction, Y-Wing, 2-String Kite
UniqueRectangleBoard == Board(<<
    <<2,7,8,5,3,1,6,9,4>>, <<6,5,1,2,4,9,3,8,7>>, <<9,3,4,8,7,6,5,1,2>>,
    <<3,0,0,0,0,0,7,5,0>>, <<8,0,0,0,5,7,0,0,3>>, <<5,0,7,3,0,0,0,0,0>>,
    <<1,9,5,7,8,4,2,3,6>>, <<7,8,6,1,2,3,9,4,5>>, <<4,2,3,0,0,5,8,7,1>>>>)

\* generate_solution(seed=333) with 27 cells emptied, one solution:
\* Pointing Triple, X-Wing, Skyscraper
SkyscraperBoard == Board(<<
    <<5,0,0,7,0,9,0,2,0>>, <<7,1,9,3,2,8,5,6,4>>, <<2,0,0,6,5,0,0,9,7>>,
    <<9,0,0,2,6,0,4,0,0>>, <<6,4,3,8,0,5,9,0,2>>, <<1,2,0,4,9,3,6,0,8>>,
    <<8,0,0,9,0,0,2,0,5>>, <<3,9,0,5,8,2,0,4,6>>, <<4,5,2,1,0,6,0,8,9>>>>)

\* generate_solution(seed=53) with 19 cells emptied, one solution:
\* Hidden Pair, Simple Coloring
HiddenPairBoard == Board(<<
    <<1,0,0,2,8,0,9,4,0>>, <<0,0,2,1,0,9,8,5,0>>, <<8,0,9,7,3,0,2,1,6>>,
    <<9,7,0,3,0,8,6,2,5>>, <<3,8,0,5,0,2,7,9,4>>, <<0,2,0,9,7,0,1,3,8>>,
    <<0,6,0,4,2,1,3,8,9>>, <<4,1,8,6,9,3,5,7,2>>, <<2,9,3,8,5,7,4,6,1>>>>)

\* generate_solution(seed=277) with 39 cells emptied, one solution:
\* Naked Pair, Naked Triple, Naked Quad, Pointing Pair, W-Wing
NakedQuadBoard == Board(<<
    <<0,0,0,7,0,5,3,9,2>>, <<7,0,9,6,2,3,0,5,0>>, <<3,0,5,9,0,4,7,0,6>>,
    <<6,3,4,8,0,1,0,0,0>>, <<0,0,1,4,0,0,0,0,3>>, <<0,5,7,2,3,0,0,0,0>>,
    <<0,0,3,1,6,0,8,0,0>>, <<0,7,2,5,9,8,6,3,0>>, <<0,0,0,3,4,0,0,0,0>>>>)

\* "Tier 3 - Hard #5" of puzzles.py with 20 more cells filled, no solution:
\* Naked Pair, Naked Triple, Hidden Quad, Pointing Pair
HiddenQuadBoard == Board(<<
    <<8,9,3,7,1,4,5,2,6>>, <<0,0,6,0,0,3,1,0,0>>, <<7,1,0,6,0,0,3,0,0>>,
    <<0,0,0,9,3,1,7,0,0>>, <<1,0,0,4,7,0,9,0,3>>, <<9,3,7,0,0,6,4,1,0>>,
    <<3,7,9,2,4,8,6,5,1>>, <<0,0,8,3,0,0,2,0,0>>, <<2,0,0,1,0,0,8,3,0>>>>)

\* generate_solution(seed=333) with 34 cells emptied, one solution:
\* Pointing Pair, Box-Line Reduction, Swordfish, Y-Wing, W-Wing, 2-String Kite
SwordfishBoard == Board(<<
    <<0,0,0,7,0,9,0,2,0>>, <<0,1,9,3,2,8,0,6,4>>, <<2,0,0,6,0,0,0,9,0>>,
    <<9,0,0,2,6,0,4,0,0>>, <<6,4,3,8,0,5,9,0,2>>, <<1,2,0,4,9,3,6,0,8>>,
    <<8,0,0,9,0,0,2,0,0>>, <<0,9,0,5,8,2,0,4,6>>, <<4,5,2,1,0,6,0,8,9>>>>)

\* generate_solution(seed=250)
Solution250 == Board(<<
    <<8,1,5,3,7,2,6,4,9>>, <<7,3,4,6,9,8,2,5,1>>, <<2,9,6,4,1,5,3,7,8>>,
    <<3,6,8,7,2,9,5,1,4>>, <<4,2,7,1,5,6,8,9,3>>, <<1,5,9,8,4,3,7,2,6>>,
    <<9,7,3,2,8,4,1,6,5>>, <<6,4,1,5,3,7,9,8,2>>, <<5,8,2,9,6,1,4,3,7>>>>)

\* the cells emptied, in this order, to make a puzzle of Solution250
HoleOrder == <<
    <<0,1>>, <<0,2>>, <<0,4>>, <<1,0>>, <<1,1>>, <<1,2>>, <<1,4>>,
    <<1,6>>, <<2,0>>, <<2,1>>, <<2,5>>, <<2,6>>, <<3,1>>, <<3,4>>,
    <<3,5>>, <<4,1>>, <<4,4>>, <<4,5>>, <<6,1>>, <<6,2>>, <<6,8>>,
    <<7,1>>, <<7,2>>, <<8,0>>, <<8,8>>, <<8,2>>, <<4,2>>>>

\* Solution250 with the 8 of (0, 0) moved to (3, 0) and the 8 of row 3
\* taken out: no house repeats a digit, the two empty cells have no candidate
ContradictoryBoard ==
    [Solution250 EXCEPT ![0][0] = 0, ![3][0] = 8, ![3][2] = 0]

\* the largest number of cells emptied in Solution250
MaxHoles == 25

\* Solution250 with the first n cells of HoleOrder emptied; its solved grid is
\* Punch(0), and from 25 holes on the driver needs more than singles
Punch(n) ==
    [r \in Idx |-> [c \in Idx |->
        IF \E k \in 1..n : k <= Len(HoleOrder) /\ HoleOrder[k] = <<r, c>>
        THEN 0 ELSE Solution250[r][c]]]

Boards ==
    {ClassicEasy1, EasyBeginner4, Moderate5, Expert5, WWingBoard,
     UniqueRectangleBoard, SkyscraperBoard, HiddenPairBoard, NakedQuadBoard,
     HiddenQuadBoard, SwordfishBoard, ContradictoryBoard}
    \cup {Punch(n) : n \in 0..MaxHoles}

Drivers == {"solve", "rate", "gui"}

----------------------------------------------------------------------------
(* The driver loops *)

TheGrid == [values |-> values, givens |-> givens, candidates |-> candidates]

\* a grid of empty cells
NoGrid == [r \in Idx |-> [c \in Idx |-> 0]]

\* what a call returns: _solve and solve_sudoku a truth value, _bt_solve a
\* grid (ok) or None (not ok)
Ret(ok, grid) == [ok |-> ok, grid |-> grid]

\* no backtracker runs
SearchIdle ==
    /\ bt_fn = "none"
    /\ bt_input = NoGrid
    /\ bt_work = NoGrid
    /\ bt_stack = <<>>
    /\ bt_count = 0
    /\ bt_pc = "idle"
    /\ bt_ret = Ret(FALSE, NoGrid)
    /\ bt_result = Ret(FALSE, NoGrid)

\* no generator runs
GenIdle ==
    /\ gen_pc = "idle"
    /\ target_tier = 0
    /\ max_attempts = 0
    /\ seed = 0
    /\ attempt = 0
    /\ puzzle = NoGrid
    /\ cell_order = <<>>
    /\ cell_no = 1
    /\ empty_count = 0
    /\ saved = 0
    /\ gen_result = Ret(FALSE, NoGrid)
    /\ gen_call = 1
    /\ first_call = [max_attempts |-> 0, attempt |-> 0,
                     result |-> Ret(FALSE, NoGrid)]

\* no SudokuApp runs
AppIdle ==
    /\ self = [initial_values |-> NoGrid, steps |-> <<>>,
               grid_states |-> <<>>, stuck |-> FALSE, conflict_cells |-> {},
               difficulty |-> 0, _computing |-> FALSE,
               _compute_ready |-> FALSE, step_idx |-> 0]
    /\ workers = <<>>
    /\ ui_pc = "idle"

\* no puzzle file is written
FileIdle ==
    /\ file_values = NoGrid
    /\ file_text = <<>>
    /\ file_first = <<>>
    /\ file_read = Ret(FALSE, NoGrid)
    /\ file_pc = "idle"

Init ==
    /\ SearchIdle
    /\ GenIdle
    /\ AppIdle
    /\ FileIdle
    /\ initial_values \in Boards
    /\ driver \in Drivers
    /\ values = Grid(initial_values).values
    /\ givens = Grid(initial_values).givens
    /\ candidates = Grid(initial_values).candidates
    /\ pc = "start"
    /\ pos = 1
    /\ steps = <<>>
    /\ max_tier = 0
    /\ stuck = FALSE
    /\ conflict_cells = {}
    /\ rated = -1
    /\ run = 1
    /\ first_run = [steps |-> <<>>, rated |-> -1]

\* a rater that returns max_tier also when it is stuck
RatingMaxTier(isStuck, ss) ==
    CASE driver = "rate"  -> max_tier
      [] driver = "gui"   -> rate_puzzle(ss)
      [] driver = "solve" -> rated

\* what each driver leaves when its loop is over: _rate_difficulty returns
\* 0 when stuck and max_tier otherwise, the gui stores rate_puzzle(steps),
\* solve only prints
Rating(isStuck, ss) ==
    CASE driver = "rate"  -> IF isStuck THEN 0 ELSE max_tier
      [] driver = "gui"   -> rate_puzzle(ss)
      [] driver = "solve" -> rated

\* entry: the gui worker validates the initial board and gives up on a
\* conflict; solve and _rate_difficulty go straight into the loop
Start ==
    /\ pc = "start"
    /\ IF driver = "gui" /\ validate_board(initial_values) # {}
       THEN /\ pc' = "done"
            /\ stuck' = TRUE
            /\ conflict_cells' = validate_board(initial_values)
            /\ rated' = Rating(TRUE, steps)
       ELSE /\ pc' = "loop"
            /\ UNCHANGED <<stuck, conflict_cells, rated>>
    /\ UNCHANGED <<run, first_run, searchvars, genvars, appvars, filevars>>
    /\ UNCHANGED <<driver, initial_values, values, givens, candidates, pos,
                   steps, max_tier>>

\* while not grid.is_solved(): the loop ends on a solved grid
WhileExit ==
    /\ pc = "loop" /\ pos = 1
    /\ is_solved(TheGrid)
    /\ pc' = "done"
    /\ rated' = Rating(FALSE, steps)
    /\ UNCHANGED <<run, first_run, searchvars, genvars, appvars, filevars>>
    /\ UNCHANGED <<driver, initial_values, values, givens, candidates, pos,
                   steps, max_tier, stuck, conflict_cells>>

\* for _, fn in ALL_STRATEGIES: fn(grid) returns None, go on to the next
Miss ==
    /\ pc = "loop" /\ pos <= 21
    /\ ~ is_solved(TheGrid)
    /\ Detector(pos, TheGrid) = None
    /\ pos' = pos + 1
    /\ UNCHANGED <<run, first_run, searchvars, genvars, appvars, filevars>>
    /\ UNCHANGED <<driver, initial_values, values, givens, candidates, pc,
                   steps, max_tier, stuck, conflict_cells, rated>>

\* a loop without the break: after a step the scan goes on with the next
\* entry of the registry
FireNoBreak ==
    /\ pc = "loop" /\ pos <= 21
    /\ ~ is_solved(TheGrid)
    /\ LET step == Detector(pos, TheGrid)
       IN /\ step # None
          /\ LET grid == apply_step(TheGrid, step)
                 tier == StepTier(step, ALL_STRATEGIES[pos])
             IN /\ steps' = Append(steps, step)
                /\ values' = grid.values
                /\ givens' = grid.givens
                /\ candidates' = grid.candidates
                /\ pos' = pos + 1
                /\ max_tier' = IF driver = "rate" /\ tier > max_tier
                               THEN tier ELSE max_tier
                /\ IF driver = "gui" /\ validate_board(grid.values) # {}
                   THEN /\ conflict_cells' = validate_board(grid.values)
                        /\ stuck' = TRUE
                        /\ pc' = "done"
                        /\ rated' = Rating(TRUE, Append(steps, step))
                   ELSE UNCHANGED <<conflict_cells, stuck, pc, rated>>
    /\ UNCHANGED <<run, first_run, searchvars, genvars, appvars, filevars>>
    /\ UNCHANGED <<driver, initial_values>>

\* a registry without an order: after a step the scan restarts at any of
\* the first two entries
FireUnordered ==
    /\ pc = "loop" /\ pos <= 21
    /\ ~ is_solved(TheGrid)
    /\ LET step == Detector(pos, TheGrid)
       IN /\ step # None
          /\ LET grid == apply_step(TheGrid, step)
                 tier == StepTier(step, ALL_STRATEGIES[pos])
             IN /\ steps' = Append(steps, step)
                /\ values' = grid.values
                /\ givens' = grid.givens
                /\ candidates' = grid.candidates
                /\ pos' \in 1..2
                /\ max_tier' = IF driver = "rate" /\ tier > max_tier
                               THEN tier ELSE max_tier
                /\ IF driver = "gui" /\ validate_board(grid.values) # {}
                   THEN /\ conflict_cells' = validate_board(grid.values)
                        /\ stuck' = TRUE
                        /\ pc' = "done"
                        /\ rated' = Rating(TRUE, Append(steps, step))
                   ELSE UNCHANGED <<conflict_cells, stuck, pc, rated>>
    /\ UNCHANGED <<run, first_run, searchvars, genvars, appvars, filevars>>
    /\ UNCHANGED <<driver, initial_values>>

\* fn(grid) returns a step: emit it, apply it, break and restart the scan;
\* the gui worker stops when the new values hold a conflict
Fire ==
    /\ pc = "loop" /\ pos <= 21
    /\ ~ is_solved(TheGrid)
    /\ LET step == Detector(pos, TheGrid)
       IN /\ step # None
          /\ LET grid == apply_step(TheGrid, step)
                 tier == StepTier(step, ALL_STRATEGIES[pos])
             IN /\ steps' = Append(steps, step)
                /\ values' = grid.values
                /\ givens' = grid.givens
                /\ candidates' = grid.candidates
                /\ pos' = 1
                /\ max_tier' = IF driver = "rate" /\ tier > max_tier
                               THEN tier ELSE max_tier
                /\ IF driver = "gui" /\ validate_board(grid.values) # {}
                   THEN /\ conflict_cells' = validate_board(grid.values)
                        /\ stuck' = TRUE
                        /\ pc' = "done"
                        /\ rated' = Rating(TRUE, Append(steps, step))
                   ELSE UNCHANGED <<conflict_cells, stuck, pc, rated>>
    /\ UNCHANGED <<run, first_run, searchvars, genvars, appvars, filevars>>
    /\ UNCHANGED <<driver, initial_values>>

\* a loop that starts the scan again when no detector fired
NoStepRetry ==
    /\ pc = "loop" /\ pos = 22
    /\ pos' = 1
    /\ UNCHANGED <<run, first_run, searchvars, genvars, appvars, filevars>>
    /\ UNCHANGED <<driver, initial_values, values, givens, candidates, pc,
                   steps, max_tier, stuck, conflict_cells, rated>>

\* the for loop ran through all 21 entries without a step: stuck
NoStep ==
    /\ pc = "loop" /\ pos = 22
    /\ pc' = "done"
    /\ stuck' = TRUE
    /\ rated' = Rating(TRUE, steps)
    /\ UNCHANGED <<run, first_run, searchvars, genvars, appvars, filevars>>
    /\ UNCHANGED <<driver, initial_values, values, givens, candidates, pos,
                   steps, max_tier, conflict_cells>>

Next == Start \/ WhileExit \/ Miss \/ Fire \/ NoStep

Spec == Init /\ [][Next]_vars

\* the caller runs the driver a second time on the same initial values:
\* solve(Grid(values), ...), _rate_difficulty(values) and the gui worker each
\* build a new Grid from the values
Again ==
    /\ pc = "done" /\ run = 1
    /\ run' = 2
    /\ first_run' = [steps |-> steps, rated |-> rated]
    /\ values' = Grid(initial_values).values
    /\ givens' = Grid(initial_values).givens
    /\ candidates' = Grid(initial_values).candidates
    /\ pc' = "start"
    /\ pos' = 1
    /\ steps' = <<>>
    /\ max_tier' = 0
    /\ stuck' = FALSE
    /\ conflict_cells' = {}
    /\ rated' = -1
    /\ UNCHANGED <<driver, initial_values, searchvars, genvars, appvars, filevars>>

TwoRunNext == Start \/ WhileExit \/ Miss \/ Fire \/ NoStep \/ Again

TwoRunSpec == Init /\ [][TwoRunNext]_vars

\* the gui worker computes the steps of the initial values that
\* _rate_difficulty has rated
GuiAfterRate ==
    /\ pc = "done" /\ run = 1 /\ driver = "rate"
    /\ run' = 2
    /\ driver' = "gui"
    /\ first_run' = [steps |-> steps, rated |-> rated]
    /\ values' = Grid(initial_values).values
    /\ givens' = Grid(initial_values).givens
    /\ candidates' = Grid(initial_values).candidates
    /\ pc' = "start"
    /\ pos' = 1
    /\ steps' = <<>>
    /\ max_tier' = 0
    /\ stuck' = FALSE
    /\ conflict_cells' = {}
    /\ rated' = -1
    /\ UNCHANGED <<initial_values, searchvars, genvars, appvars, filevars>>

RateGuiInit == Init /\ driver = "rate"

RateGuiNext == Start \/ WhileExit \/ Miss \/ Fire \/ NoStep \/ GuiAfterRate

RateGuiSpec == RateGuiInit /\ [][RateGuiNext]_vars

----------------------------------------------------------------------------
(* The backtracking solvers, call by call *)

\* grid[r][c] = d for the cell at scan position p
Put(grid, p, d) == [grid EXCEPT ![p \div 9][p % 9] = d]

\* a call inside its  for d  loop: the cell it fills, the digits it has not
\* tried yet (it tries them in ascending order) and, for _bt_solve, the copy
\* of the grid it made; _solve and solve_sudoku work in place
Frame(cell, cands, grid) ==
    [cell |-> cell, cands |-> cands,
     grid |-> IF bt_fn = "_bt_solve" THEN grid ELSE <<>>]

Top == bt_stack[Len(bt_stack)]
Pop == SubSeq(bt_stack, 1, Len(bt_stack) - 1)
ReplaceTop(f) == [bt_stack EXCEPT ![Len(bt_stack)] = f]

\* is_valid of sudosolv.py
is_valid(board, num, r, c) ==
    /\ \A i \in Idx : ~ (board[r][i] = num /\ i # c)
    /\ \A i \in Idx : ~ (board[i][c] = num /\ i # r)
    /\ \A i \in ((r \div 3) * 3)..((r \div 3) * 3 + 2) :
          \A j \in ((c \div 3) * 3)..((c \div 3) * 3 + 2) :
              ~ (board[i][j] = num /\ <<i, j>> # <<r, c>>)

\* a scan that keeps the first empty cell instead of the cell with the
\* fewest candidates
_bt_scan_first(grid) ==
    LET E       == {i \in 0..80 : grid[i \div 9][i % 9] = 0}
        n(i)    == Cardinality(_bt_candidates(grid, i \div 9, i % 9))
        ones    == {i \in E : n(i) = 1}
        stop    == IF ones = {} THEN 80 ELSE Min(ones)
        scanned == {i \in E : i <= stop}
    IN [dead |-> \E i \in scanned : n(i) = 0,
        best |-> IF E = {} THEN -1 ELSE Min(E)]

\* the scan of _bt_solve for the cell to branch on: dead when a scanned
\* empty cell has no candidate, best = -1 when no cell is empty
_bt_scan(grid) ==
    LET E       == {i \in 0..80 : grid[i \div 9][i % 9] = 0}
        n(i)    == Cardinality(_bt_candidates(grid, i \div 9, i % 9))
        ones    == {i \in E : n(i) = 1}
        stop    == IF ones = {} THEN 80 ELSE Min(ones)
        scanned == {i \in E : i <= stop}
        m       == Min({n(i) : i \in scanned})
    IN [dead |-> \E i \in scanned : n(i) = 0,
        best |-> IF E = {} THEN -1 ELSE Min({i \in scanned : n(i) = m})]

\* the cell a call branches on and the digits it tries there, or cell 81
\* when no cell is empty.  _solve and solve_sudoku scan from cell 0; every
\* cell up to the cell of the calling frame is filled, so the scan is taken
\* up after that cell
Branch(fn, grid) ==
    CASE fn = "_has_unique_solution" ->
            LET p == first_empty(grid, IF bt_stack = <<>> THEN 0
                                     ELSE Top.cell + 1)
            IN [cell |-> p,
                cands |-> IF p = 81 THEN {}
                          ELSE _bt_candidates(grid, p \div 9, p % 9)]
      [] fn = "solve_sudoku" ->
            LET p == first_empty(grid, IF bt_stack = <<>> THEN 0
                                     ELSE Top.cell + 1)
            IN [cell |-> p,
                cands |-> IF p = 81 THEN {}
                          ELSE {num \in Digits :
                                   is_valid(grid, num, p \div 9, p % 9)}]
      [] fn = "_bt_solve" ->
            LET sc == _bt_scan(grid)
            IN [cell |-> IF sc.best = -1 THEN 81 ELSE sc.best,
                cands |-> IF sc.best = -1 \/ sc.dead THEN {}
                          ELSE _bt_candidates(grid, sc.best \div 9, sc.best % 9)]

\* a counter without the early exit: _solve returns False after every
\* solution it counts
FoundNoStop ==
    /\ bt_pc = "call"
    /\ Branch(bt_fn, bt_work).cell = 81
    /\ bt_count' = IF bt_fn = "_has_unique_solution" THEN bt_count + 1
                   ELSE bt_count
    /\ bt_ret' = Ret(bt_fn # "_has_unique_solution", bt_work)
    /\ bt_pc' = "ret"
    /\ UNCHANGED <<bt_fn, bt_input, bt_work, bt_stack, bt_result, drivervars, genvars, appvars, filevars>>

\* no cell is empty: _solve counts one more solution and returns True when it
\* is the second; solve_sudoku returns True; _bt_solve returns the grid
Found ==
    /\ bt_pc = "call"
    /\ Branch(bt_fn, bt_work).cell = 81
    /\ bt_count' = IF bt_fn = "_has_unique_solution" THEN bt_count + 1
                   ELSE bt_count
    /\ bt_ret' = Ret(IF bt_fn = "_has_unique_solution" THEN bt_count + 1 >= 2
                     ELSE TRUE, bt_work)
    /\ bt_pc' = "ret"
    /\ UNCHANGED <<bt_fn, bt_input, bt_work, bt_stack, bt_result, drivervars, genvars, appvars, filevars>>

\* the cell has no digit to try (for _bt_solve: a scanned cell has none): the
\* call returns False (None)
DeadEnd ==
    /\ bt_pc = "call"
    /\ LET b == Branch(bt_fn, bt_work)
       IN b.cell < 81 /\ b.cands = {}
    /\ bt_ret' = Ret(FALSE, bt_work)
    /\ bt_pc' = "ret"
    /\ UNCHANGED <<bt_fn, bt_input, bt_work, bt_stack, bt_count, bt_result,
                   drivervars, genvars, appvars, filevars>>

\* the call puts the first digit into its cell and calls itself (_bt_solve:
\* on a copy of its grid)
Descend ==
    /\ bt_pc = "call"
    /\ LET b == Branch(bt_fn, bt_work)
           d == Min(b.cands)
       IN /\ b.cell < 81
          /\ b.cands # {}
          /\ bt_work' = Put(bt_work, b.cell, d)
          /\ bt_stack' = Append(bt_stack, Frame(b.cell, b.cands \ {d},
                                                Put(bt_work, b.cell, d)))
    /\ UNCHANGED <<bt_fn, bt_input, bt_count, bt_pc, bt_ret, bt_result,
                   drivervars, genvars, appvars, filevars>>

\* the inner call returned True (a grid): the call returns it at once, its
\* cell stays filled
Unwind ==
    /\ bt_pc = "ret"
    /\ bt_stack # <<>>
    /\ bt_ret.ok
    /\ bt_stack' = Pop
    /\ UNCHANGED <<bt_fn, bt_input, bt_work, bt_count, bt_pc, bt_ret,
                   bt_result, drivervars, genvars, appvars, filevars>>

\* the inner call returned False (None): the cell is emptied and the next
\* digit goes in
NextDigit ==
    /\ bt_pc = "ret"
    /\ bt_stack # <<>>
    /\ ~ bt_ret.ok
    /\ Top.cands # {}
    /\ LET d    == Min(Top.cands)
           grid == IF bt_fn = "_bt_solve" THEN Top.grid ELSE bt_work
       IN /\ bt_work' = Put(grid, Top.cell, d)
          /\ bt_stack' = ReplaceTop(Frame(Top.cell, Top.cands \ {d},
                                          Put(grid, Top.cell, d)))
    /\ bt_pc' = "call"
    /\ UNCHANGED <<bt_fn, bt_input, bt_count, bt_ret, bt_result, drivervars, genvars, appvars, filevars>>

\* a backtracker that does not empty its cell when it gives up on it
ExhaustedNoReset ==
    /\ bt_pc = "ret"
    /\ bt_stack # <<>>
    /\ ~ bt_ret.ok
    /\ Top.cands = {}
    /\ bt_work' = IF bt_fn = "_bt_solve" THEN Top.grid ELSE bt_work
    /\ bt_stack' = Pop
    /\ bt_ret' = Ret(FALSE, bt_work')
    /\ UNCHANGED <<bt_fn, bt_input, bt_count, bt_pc, bt_result, drivervars, genvars, appvars, filevars>>

\* the inner call returned False (None) for the last digit: the cell is
\* emptied and the call returns False (None)
Exhausted ==
    /\ bt_pc = "ret"
    /\ bt_stack # <<>>
    /\ ~ bt_ret.ok
    /\ Top.cands = {}
    /\ bt_work' = Put(IF bt_fn = "_bt_solve" THEN Top.grid ELSE bt_work,
                      Top.cell, 0)
    /\ bt_stack' = Pop
    /\ bt_ret' = Ret(FALSE, bt_work')
    /\ UNCHANGED <<bt_fn, bt_input, bt_count, bt_pc, bt_result, drivervars, genvars, appvars, filevars>>

\* the outermost call has returned: _has_unique_solution returns
\* count[0] == 1, solve_sudoku its truth value and the board, _bt_solve the
\* grid or None
Return ==
    /\ bt_pc = "ret"
    /\ bt_stack = <<>>
    /\ bt_result' = IF bt_fn = "_has_unique_solution"
                    THEN Ret(bt_count = 1, bt_input)
                    ELSE Ret(bt_ret.ok, IF bt_ret.ok THEN bt_ret.grid ELSE bt_work)
    /\ bt_pc' = "done"
    /\ UNCHANGED <<bt_fn, bt_input, bt_work, bt_stack, bt_count, bt_ret,
                   drivervars, genvars, appvars, filevars>>

\* Solution250 without the four cells of a rectangle that holds 5 and 4
\* crosswise, and the first ten cells of HoleOrder: two solutions
TwoSolutions ==
    [Punch(10) EXCEPT ![0][2] = 0, ![0][7] = 0, ![1][2] = 0, ![1][7] = 0]

\* Punch(25) without the cells of that rectangle: five solutions, and
\* _bt_solve has to take digits back
FiveSolutions ==
    [Punch(25) EXCEPT ![0][2] = 0, ![0][7] = 0, ![1][2] = 0, ![1][7] = 0]

\* also without a second and a third such rectangle: eight solutions
EightSolutions ==
    [TwoSolutions EXCEPT ![6][1] = 0, ![6][5] = 0, ![7][1] = 0, ![7][5] = 0,
                         ![4][5] = 0, ![4][8] = 0, ![5][5] = 0, ![5][8] = 0]

\* Punch(25) with the 2 of (0, 5) replaced by 5: no house repeats a digit,
\* and there is no solution
NoSolution == [Punch(25) EXCEPT ![0][5] = 5]

SearchBoards ==
    {Punch(0), Punch(1), Punch(10), Punch(20), Punch(25), TwoSolutions,
     FiveSolutions, EightSolutions, NoSolution, ContradictoryBoard}

Backtrackers == {"_has_unique_solution", "_bt_solve", "solve_sudoku"}

\* no driver runs
DriverIdle ==
    /\ driver = "none"
    /\ initial_values = NoGrid
    /\ values = NoGrid
    /\ givens = [r \in Idx |-> [c \in Idx |-> FALSE]]
    /\ candidates = [r \in Idx |-> [c \in Idx |-> {}]]
    /\ pc = "idle"
    /\ pos = 1
    /\ steps = <<>>
    /\ max_tier = 0
    /\ stuck = FALSE
    /\ conflict_cells = {}
    /\ rated = -1
    /\ run = 1
    /\ first_run = [steps |-> <<>>, rated |-> -1]

\* a backtracker is called on a board; _has_unique_solution works on a copy,
\* and the gui passes _bt_solve a copy
SearchInit ==
    /\ DriverIdle
    /\ AppIdle
    /\ FileIdle
    /\ GenIdle
    /\ bt_fn \in Backtrackers
    /\ bt_input \in SearchBoards
    /\ bt_work = bt_input
    /\ bt_stack = <<>>
    /\ bt_count = 0
    /\ bt_pc = "call"
    /\ bt_ret = Ret(FALSE, NoGrid)
    /\ bt_result = Ret(FALSE, NoGrid)

SearchNext ==
    Found \/ DeadEnd \/ Descend \/ Unwind \/ NextDigit \/ Exhausted \/ Return

SearchSpec == SearchInit /\ [][SearchNext]_vars

----------------------------------------------------------------------------
(* The GUI: the UI thread and its worker threads *)

\* the most worker threads that are started: one by __init__, the others by
\* load_puzzle calls of the UI thread
MaxWorkers == 2

\* the puzzles that are loaded: a full board and one that two steps solve
AppBoards == {Punch(0), Punch(2)}

\* for _, fn in ALL_STRATEGIES: step = fn(grid); if step: break, from
\* registry position k on
RECURSIVE first_step(_, _)
first_step(grid, k) ==
    IF k > 21 THEN None
    ELSE LET step == Detector(k, grid)
         IN IF step # None THEN step ELSE first_step(grid, k + 1)

\* the fields of self that _compute_worker assigns, in its order
PublishOrder ==
    <<"steps", "grid_states", "stuck", "conflict_cells", "difficulty",
      "_computing", "_compute_ready">>

\* load_puzzle and compute_all_steps_async, without the thread start
compute_all_steps_async(app, vals) ==
    [app EXCEPT !.initial_values = vals, !.steps = <<>>,
                !.grid_states = <<>>, !.stuck = FALSE, !.difficulty = 0,
                !._computing = TRUE, !._compute_ready = FALSE,
                !.conflict_cells = {}, !.step_idx = 0]

\* a thread that is about to run _compute_worker, with its locals
NewWorker ==
    [pc |-> "start", grid |-> Grid(NoGrid), steps |-> <<>>,
     grid_states |-> <<>>, stuck |-> FALSE, conflict_cells |-> {}]

\* go_to_step(idx): self afterwards, and whether
\* self.grid_states[self.step_idx] raised an IndexError
go_to_step(app, idx) ==
    LET i == Max({0, Min({idx, Len(app.steps)})})
    IN IF i < Len(app.grid_states)
       THEN [app |-> [app EXCEPT !.step_idx = i,
                                 !.conflict_cells =
                                     validate_board(app.grid_states[i + 1].values)],
             raised |-> FALSE]
       ELSE [app |-> [app EXCEPT !.step_idx = i], raised |-> TRUE]

\* SudokuApp.__init__ has loaded the first puzzle and run() begins
AppInit ==
    /\ DriverIdle
    /\ SearchIdle
    /\ GenIdle
    /\ FileIdle
    /\ \E vals \in AppBoards :
          self = compute_all_steps_async(
                     [initial_values |-> NoGrid, steps |-> <<>>,
                      grid_states |-> <<>>, stuck |-> FALSE,
                      conflict_cells |-> {}, difficulty |-> 0,
                      _computing |-> FALSE, _compute_ready |-> FALSE,
                      step_idx |-> 0], vals)
    /\ workers = <<NewWorker>>
    /\ ui_pc = "events"

\* _compute_worker up to its while loop: the worker reads
\* self.initial_values, validates the board and builds the first grid state
WorkerStart(w) ==
    /\ workers[w].pc = "start"
    /\ LET init_conflicts == validate_board(self.initial_values)
       IN workers' = [workers EXCEPT ![w] =
              IF init_conflicts # {}
              THEN [@ EXCEPT !.conflict_cells = init_conflicts,
                             !.grid_states = <<Grid(self.initial_values)>>,
                             !.stuck = TRUE, !.pc = PublishOrder[1]]
              ELSE [@ EXCEPT !.grid = Grid(self.initial_values),
                             !.grid_states = <<Grid(self.initial_values)>>,
                             !.pc = "while"]]
    /\ UNCHANGED <<self, ui_pc, drivervars, searchvars, genvars, filevars>>

\* while not grid.is_solved(): the loop is left when the grid is solved
WorkerDone(w) ==
    /\ workers[w].pc = "while"
    /\ is_solved(workers[w].grid)
    /\ workers' = [workers EXCEPT ![w].pc = PublishOrder[1]]
    /\ UNCHANGED <<self, ui_pc, drivervars, searchvars, genvars, filevars>>

\* one pass of the while loop: no strategy finds a step and the worker is
\* stuck, or the first step found is appended and applied, and the loop
\* goes on unless the board has a conflict
WorkerStep(w) ==
    /\ workers[w].pc = "while"
    /\ ~ is_solved(workers[w].grid)
    /\ \E step \in {first_step(workers[w].grid, 1)} :
          IF step = None
          THEN workers' = [workers EXCEPT ![w].stuck = TRUE,
                                          ![w].pc = PublishOrder[1]]
          ELSE \E next \in {apply_step(workers[w].grid, step)} :
                  workers' = [workers EXCEPT ![w] =
                      [pc |-> IF validate_board(next.values) # {}
                              THEN PublishOrder[1] ELSE "while",
                       grid |-> next,
                       steps |-> Append(@.steps, step),
                       grid_states |-> Append(@.grid_states, next),
                       stuck |-> validate_board(next.values) # {},
                       conflict_cells |-> validate_board(next.values)]]
    /\ UNCHANGED <<self, ui_pc, drivervars, searchvars, genvars, filevars>>

\* a worker thread makes the next of its assignments self.steps = steps, ...,
\* self._compute_ready = True
Publish(w) ==
    /\ \E k \in 1..Len(PublishOrder) :
          /\ workers[w].pc = PublishOrder[k]
          /\ self' = [self EXCEPT ![PublishOrder[k]] =
                CASE k = 1 -> workers[w].steps
                  [] k = 2 -> workers[w].grid_states
                  [] k = 3 -> workers[w].stuck
                  [] k = 4 -> workers[w].conflict_cells
                  [] k = 5 -> rate_puzzle(workers[w].steps)
                  [] k = 6 -> FALSE
                  [] k = 7 -> TRUE]
          /\ workers' = [workers EXCEPT ![w].pc =
                IF k < Len(PublishOrder) THEN PublishOrder[k + 1] ELSE "done"]
    /\ UNCHANGED <<ui_pc, drivervars, searchvars, genvars, filevars>>

\* handle_events: no event is pending
NoEvent ==
    /\ ui_pc = "events"
    /\ ui_pc' = "check"
    /\ UNCHANGED <<self, workers, drivervars, searchvars, genvars, filevars>>

\* handle_events: the user loads a puzzle (load_puzzle)
LoadPuzzle ==
    /\ ui_pc = "events"
    /\ Len(workers) < MaxWorkers
    /\ \E vals \in AppBoards : self' = compute_all_steps_async(self, vals)
    /\ workers' = Append(workers, NewWorker)
    /\ ui_pc' = "check"
    /\ UNCHANGED <<drivervars, searchvars, genvars, filevars>>

\* handle_events, _key_solve: RIGHT or SPACE
KeyRight ==
    /\ ui_pc = "events"
    /\ IF self.stuck /\ self.step_idx = Len(self.steps)
       THEN /\ ui_pc' = "check"
            /\ UNCHANGED self
       ELSE /\ self' = go_to_step(self, self.step_idx + 1).app
            /\ ui_pc' = IF go_to_step(self, self.step_idx + 1).raised
                        THEN "raised" ELSE "check"
    /\ UNCHANGED <<workers, drivervars, searchvars, genvars, filevars>>

\* handle_events, _key_solve: LEFT or BACKSPACE
KeyLeft ==
    /\ ui_pc = "events"
    /\ self' = go_to_step(self, self.step_idx - 1).app
    /\ ui_pc' = IF go_to_step(self, self.step_idx - 1).raised
                THEN "raised" ELSE "check"
    /\ UNCHANGED <<workers, drivervars, searchvars, genvars, filevars>>

\* _check_compute_ready
CheckComputeReady ==
    /\ ui_pc = "check"
    /\ IF self._compute_ready
       THEN LET app == [self EXCEPT !._compute_ready = FALSE]
            IN /\ self' = go_to_step(app, 0).app
               /\ ui_pc' = IF go_to_step(app, 0).raised
                           THEN "raised" ELSE "draw"
       ELSE /\ ui_pc' = "draw"
            /\ UNCHANGED self
    /\ UNCHANGED <<workers, drivervars, searchvars, genvars, filevars>>

\* draw, in solve mode: draw_cell evaluates self.grid_states[self.step_idx]
Draw ==
    /\ ui_pc = "draw"
    /\ ui_pc' = IF self.step_idx < Len(self.grid_states)
                THEN "events" ELSE "raised"
    /\ UNCHANGED <<self, workers, drivervars, searchvars, genvars, filevars>>

AppNext ==
    \/ \E w \in 1..Len(workers) :
          WorkerStart(w) \/ WorkerDone(w) \/ WorkerStep(w) \/ Publish(w)
    \/ NoEvent \/ LoadPuzzle \/ KeyRight \/ KeyLeft
    \/ CheckComputeReady \/ Draw

AppSpec == AppInit /\ [][AppNext]_vars

----------------------------------------------------------------------------
(* The puzzle file *)

\* the characters of the decimal digits, and the end of a line
DigitChars == <<"0", "1", "2", "3", "4", "5", "6", "7", "8", "9">>
NL         == "\n"
Whitespace == {" ", "\t", "\r", NL}

\* a str that writes an empty cell as a dot
str_dot(d) ==
    IF d = 0 THEN <<".">>
    ELSE IF d < 10 THEN <<DigitChars[d + 1]>>
    ELSE <<DigitChars[(d \div 10) + 1], DigitChars[(d % 10) + 1]>>

\* str(d) of a number below 100, as the sequence of its characters
str(d) ==
    IF d < 10 THEN <<DigitChars[d + 1]>>
    ELSE <<DigitChars[(d \div 10) + 1], DigitChars[(d % 10) + 1]>>

\* int(ch) of a digit character
int(ch) == CHOOSE d \in 0..9 : DigitChars[d + 1] = ch

\* "".join(str(d) for d in row), from column c on
RECURSIVE join(_, _)
join(row, c) == IF c > 8 THEN <<>> ELSE str(row[c]) \o join(row, c + 1)

\* _prompt_save_file: for row in values: f.write("".join(...) + "\n"), from
\* row r on
RECURSIVE write(_, _)
write(vals, r) ==
    IF r > 8 THEN <<>>
    ELSE join(vals[r], 0) \o <<NL>> \o write(vals, r + 1)

\* for line in f: the lines of a text, each with the "\n" that ends it
RECURSIVE lines(_)
lines(text) ==
    IF text = <<>> THEN <<>>
    ELSE LET ends == {i \in 1..Len(text) : text[i] = NL}
             n    == IF ends = {} THEN Len(text) ELSE Min(ends)
         IN <<SubSeq(text, 1, n)>> \o lines(SubSeq(text, n + 1, Len(text)))

\* line.strip()
strip(line) ==
    LET keep == {i \in 1..Len(line) : line[i] \notin Whitespace}
    IN IF keep = {} THEN <<>> ELSE SubSeq(line, Min(keep), Max(keep))

\* line.isdigit() of a line of ASCII characters
isdigit(line) ==
    line # <<>> /\ \A i \in 1..Len(line) : line[i] \in Range(DigitChars)

\* if len(line) == 9 and line.isdigit(), for a stripped line
PuzzleLine(line) == Len(line) = 9 /\ isdigit(line)

\* read_puzzle, of the text of the file: the board of the lines of nine
\* digits if there are nine of them, and None otherwise
read_puzzle(text) ==
    LET ls       == lines(text)
        stripped == [i \in 1..Len(ls) |-> strip(ls[i])]
        board    == SelectSeq(stripped, PuzzleLine)
    IN IF Len(board) = 9
       THEN Ret(TRUE, [r \in Idx |-> [c \in Idx |-> int(board[r + 1][c + 1])]])
       ELSE Ret(FALSE, NoGrid)

\* the cells of a board that take every digit 0..9 in turn
FileCells == {<<0, 0>>, <<0, 8>>, <<4, 4>>, <<8, 8>>}

\* the values that are saved: grids of digits 0..9, as input mode and the
\* grid states hold them
FileGrids ==
    {[b EXCEPT ![p[1]][p[2]] = d] :
        b \in {NoGrid, ClassicEasy1, Solution250}, p \in FileCells, d \in 0..9}

\* _prompt_save_file is about to write values
FileInit ==
    /\ DriverIdle
    /\ SearchIdle
    /\ GenIdle
    /\ AppIdle
    /\ file_values \in FileGrids
    /\ file_text = <<>>
    /\ file_first = <<>>
    /\ file_read = Ret(FALSE, NoGrid)
    /\ file_pc = "save"

\* _prompt_save_file writes the values
Save ==
    /\ file_pc = "save"
    /\ file_text' = write(file_values, 0)
    /\ file_first' = write(file_values, 0)
    /\ file_pc' = "read"
    /\ UNCHANGED <<file_values, file_read, drivervars, searchvars, genvars,
                   appvars>>

\* _prompt_load_file: vals = read_puzzle(path); if vals: ...
Read ==
    /\ file_pc = "read"
    /\ file_read' = read_puzzle(file_text)
    /\ file_pc' = IF read_puzzle(file_text).ok THEN "save again" ELSE "done"
    /\ UNCHANGED <<file_values, file_text, file_first, drivervars, searchvars,
                   genvars, appvars>>

\* _prompt_save_file writes the values that were read
SaveAgain ==
    /\ file_pc = "save again"
    /\ file_text' = write(file_read.grid, 0)
    /\ file_pc' = "done"
    /\ UNCHANGED <<file_values, file_first, file_read, drivervars, searchvars,
                   genvars, appvars>>

FileNext == Save \/ Read \/ SaveAgain

FileSpec == FileInit /\ [][FileNext]_vars

----------------------------------------------------------------------------
(* The puzzle generator *)

\* random.Random(seed): the values of its first calls of
\* randint(0, 2**31 - 1), one for each attempt
randint(s) ==
    CASE s = 73 -> <<1201798311>>
      [] s = 3032 -> <<798315186, 581139066>>
      [] s = 4629 -> <<1223094711>>
      [] s = 16662 -> <<505837549>>

\* generate_solution(seed=attempt_seed) for the attempt seeds above
generate_solution(attempt_seed) ==
    CASE attempt_seed = 1201798311 -> Board(<<
            <<5,8,1,2,9,6,7,4,3>>, <<2,7,3,1,4,8,9,6,5>>, <<4,6,9,3,7,5,1,2,8>>,
            <<1,5,2,4,8,7,3,9,6>>, <<7,9,4,5,6,3,2,8,1>>, <<6,3,8,9,2,1,5,7,4>>,
            <<3,4,7,8,5,2,6,1,9>>, <<8,1,6,7,3,9,4,5,2>>, <<9,2,5,6,1,4,8,3,7>>>>)
      [] attempt_seed = 798315186 -> Board(<<
            <<8,6,2,9,4,7,5,3,1>>, <<5,1,3,8,2,6,9,4,7>>, <<4,9,7,1,5,3,8,2,6>>,
            <<2,4,1,7,6,5,3,8,9>>, <<6,3,5,2,8,9,7,1,4>>, <<7,8,9,4,3,1,6,5,2>>,
            <<9,2,8,5,7,4,1,6,3>>, <<1,5,6,3,9,2,4,7,8>>, <<3,7,4,6,1,8,2,9,5>>>>)
      [] attempt_seed = 581139066 -> Board(<<
            <<6,2,1,5,8,3,7,9,4>>, <<5,7,8,4,1,9,2,6,3>>, <<3,9,4,6,7,2,5,8,1>>,
            <<4,5,7,2,3,8,9,1,6>>, <<9,3,6,7,5,1,8,4,2>>, <<1,8,2,9,4,6,3,7,5>>,
            <<7,1,9,3,6,5,4,2,8>>, <<8,4,5,1,2,7,6,3,9>>, <<2,6,3,8,9,4,1,5,7>>>>)
      [] attempt_seed = 1223094711 -> Board(<<
            <<5,4,9,2,7,1,3,8,6>>, <<8,3,6,4,5,9,1,2,7>>, <<7,1,2,3,8,6,5,9,4>>,
            <<9,7,4,8,2,5,6,1,3>>, <<1,2,3,9,6,4,8,7,5>>, <<6,5,8,1,3,7,9,4,2>>,
            <<3,6,1,7,4,8,2,5,9>>, <<4,8,5,6,9,2,7,3,1>>, <<2,9,7,5,1,3,4,6,8>>>>)
      [] attempt_seed = 505837549 -> Board(<<
            <<3,4,9,5,6,2,1,7,8>>, <<2,8,5,7,9,1,6,4,3>>, <<7,6,1,4,3,8,9,5,2>>,
            <<6,9,3,1,7,5,8,2,4>>, <<5,7,8,2,4,9,3,1,6>>, <<4,1,2,3,8,6,7,9,5>>,
            <<1,3,6,9,5,4,2,8,7>>, <<9,5,7,8,2,3,4,6,1>>, <<8,2,4,6,1,7,5,3,9>>>>)

\* list(range(81)) after random.Random(attempt_seed).shuffle(cells)
shuffle(attempt_seed) ==
    CASE attempt_seed = 1201798311 -> <<
            76, 20, 10, 39, 3, 50, 75, 46, 33, 42, 30, 28, 14, 78, 2, 80, 7, 44,
            74, 6, 15, 63, 56, 79, 67, 31, 51, 13, 52, 19, 12, 71, 41, 36, 72, 60,
            9, 58, 25, 55, 43, 24, 23, 0, 35, 5, 70, 29, 47, 8, 34, 65, 21, 18,
            26, 22, 61, 11, 69, 68, 40, 38, 32, 59, 48, 66, 64, 4, 16, 27, 37, 77,
            49, 62, 1, 54, 45, 53, 57, 17, 73>>
      [] attempt_seed = 798315186 -> <<
            27, 24, 51, 10, 16, 12, 28, 1, 20, 29, 72, 18, 80, 60, 46, 76, 2, 79,
            55, 31, 6, 59, 74, 71, 40, 19, 69, 54, 42, 67, 61, 30, 41, 68, 4, 66,
            22, 36, 38, 3, 44, 75, 64, 9, 62, 56, 49, 52, 45, 48, 47, 17, 78, 7,
            53, 25, 23, 11, 35, 33, 77, 0, 21, 50, 65, 5, 70, 73, 14, 63, 32, 58,
            26, 13, 15, 37, 57, 34, 39, 8, 43>>
      [] attempt_seed = 581139066 -> <<
            60, 32, 19, 73, 63, 79, 80, 57, 45, 46, 76, 67, 47, 15, 37, 74, 16, 42,
            72, 66, 77, 49, 59, 70, 12, 61, 7, 43, 62, 58, 1, 53, 52, 11, 64, 26,
            55, 35, 14, 31, 48, 78, 5, 34, 44, 41, 6, 10, 40, 68, 13, 25, 51, 9,
            20, 18, 54, 4, 71, 56, 27, 38, 39, 30, 24, 21, 0, 2, 69, 65, 33, 17,
            75, 8, 50, 28, 29, 36, 23, 22, 3>>
      [] attempt_seed = 1223094711 -> <<
            34, 72, 45, 15, 53, 51, 69, 79, 59, 68, 63, 33, 50, 46, 40, 66, 3, 49,
            65, 10, 67, 37, 70, 60, 47, 35, 43, 26, 21, 52, 20, 14, 74, 18, 30, 57,
            12, 56, 11, 73, 71, 27, 22, 75, 38, 39, 5, 64, 16, 8, 55, 9, 28, 0,
            32, 6, 80, 23, 17, 19, 58, 61, 54, 4, 44, 78, 31, 48, 24, 2, 25, 13,
            76, 42, 36, 62, 77, 1, 7, 41, 29>>
      [] attempt_seed = 505837549 -> <<
            55, 0, 63, 1, 78, 75, 9, 22, 44, 41, 7, 47, 40, 42, 66, 50, 57, 58,
            76, 65, 61, 28, 69, 59, 70, 23, 10, 30, 77, 20, 33, 4, 80, 34, 37, 51,
            71, 72, 74, 25, 62, 56, 16, 36, 24, 54, 13, 32, 12, 79, 68, 43, 15, 49,
            19, 27, 26, 11, 21, 53, 35, 6, 3, 52, 73, 45, 46, 2, 67, 8, 38, 60,
            5, 31, 48, 29, 64, 18, 17, 39, 14>>

\* the calls generate_puzzle(target_tier, max_attempts, seed) that are made
GenInputs == {
    [target_tier |-> 1, max_attempts |-> 1, seed |-> 16662],
    [target_tier |-> 1, max_attempts |-> 1, seed |-> 3032],
    [target_tier |-> 1, max_attempts |-> 2, seed |-> 3032],
    [target_tier |-> 3, max_attempts |-> 1, seed |-> 4629]}

\* the first calls that are followed by a second call
TwoCallInputs == {
    [target_tier |-> 1, max_attempts |-> 1, seed |-> 16662],
    [target_tier |-> 1, max_attempts |-> 1, seed |-> 3032],
    [target_tier |-> 3, max_attempts |-> 1, seed |-> 4629]}

\* calls generate_puzzle(target_tier, max_attempts, seed) at the end of the
\* cell loop of their first attempt, as the code reaches it: the cell loop of
\* seed 73 makes more than 200 000 calls of the uniqueness search
PunchedStates == {
    [target_tier |-> 1, max_attempts |-> 1, seed |-> 73,
     cell_no |-> 64, empty_count |-> 55, saved |-> 2,
     puzzle |-> Board(<<
            <<5,8,0,0,9,0,0,0,0>>, <<0,0,3,0,0,0,0,6,5>>, <<0,0,0,3,0,0,0,0,8>>,
            <<1,0,0,0,0,0,0,0,0>>, <<0,9,4,0,6,0,0,0,0>>, <<6,0,0,9,2,0,5,0,4>>,
            <<3,0,0,8,0,0,0,1,9>>, <<0,1,0,7,0,0,4,0,0>>, <<0,2,0,0,0,4,0,0,0>>>>)],
    [target_tier |-> 1, max_attempts |-> 1, seed |-> 3032,
     cell_no |-> 63, empty_count |-> 55, saved |-> 1,
     puzzle |-> Board(<<
            <<8,0,0,0,0,7,0,0,1>>, <<0,0,3,0,2,6,9,0,0>>, <<0,0,0,0,0,3,0,0,6>>,
            <<0,0,0,0,0,5,3,8,0>>, <<0,3,0,2,0,0,0,1,0>>, <<7,0,0,4,0,1,0,0,0>>,
            <<9,0,0,5,7,0,0,0,0>>, <<1,0,6,0,0,0,0,7,0>>, <<0,7,0,0,0,8,0,0,0>>>>)]}

\* target empty-cell ranges per tier: (empty_min, empty_max)
_EMPTY_RANGE == <<<<45, 55>>, <<55, 62>>, <<60, 64>>, <<64, 70>>>>

empty_min == IF target_tier \in 1..4 THEN _EMPTY_RANGE[target_tier][1] ELSE 45
empty_max == IF target_tier \in 1..4 THEN _EMPTY_RANGE[target_tier][2] ELSE 55

Abs(x) == IF x < 0 THEN -x ELSE x

\* a generator that takes every puzzle it has rated
acceptable_always(tier, target) == TRUE

\* the acceptance test of generate_puzzle
acceptable(tier, target) ==
    Abs(tier - target) <= 1 \/ (target >= 4 /\ tier = 0)

\* generate_puzzle is called
GenInit ==
    /\ DriverIdle
    /\ SearchIdle
    /\ AppIdle
    /\ FileIdle
    /\ \E in \in GenInputs :
          /\ target_tier = in.target_tier
          /\ max_attempts = in.max_attempts
          /\ seed = in.seed
    /\ gen_pc = "for"
    /\ attempt = 0
    /\ puzzle = NoGrid
    /\ cell_order = <<>>
    /\ cell_no = 1
    /\ empty_count = 0
    /\ saved = 0
    /\ gen_result = Ret(FALSE, NoGrid)
    /\ gen_call = 1
    /\ first_call = [max_attempts |-> 0, attempt |-> 0,
                     result |-> Ret(FALSE, NoGrid)]

\* for attempt in range(max_attempts): the attempt seed is drawn, the puzzle
\* starts as the full solution and the cells are shuffled
NextAttempt ==
    /\ gen_pc = "for"
    /\ attempt < max_attempts
    /\ LET attempt_seed == randint(seed)[attempt + 1]
       IN /\ puzzle' = generate_solution(attempt_seed)
          /\ cell_order' = shuffle(attempt_seed)
    /\ attempt' = attempt + 1
    /\ cell_no' = 1
    /\ empty_count' = 0
    /\ gen_pc' = "punch"
    /\ UNCHANGED <<target_tier, max_attempts, seed, saved, gen_result,
                   gen_call, first_call, drivervars, searchvars, appvars, filevars>>

\* all attempts exhausted: return None
GiveUp ==
    /\ gen_pc = "for"
    /\ attempt >= max_attempts
    /\ gen_result' = Ret(FALSE, NoGrid)
    /\ gen_pc' = "done"
    /\ UNCHANGED <<target_tier, max_attempts, seed, attempt, puzzle,
                   cell_order, cell_no, empty_count, saved, gen_call,
                   first_call, drivervars, searchvars, appvars, filevars>>

\* for pos in cells: the cell is cleared and _has_unique_solution(puzzle) is
\* called
Clear ==
    /\ gen_pc = "punch"
    /\ cell_no <= Len(cell_order)
    /\ LET p == cell_order[cell_no]
       IN /\ saved' = puzzle[p \div 9][p % 9]
          /\ puzzle' = Put(puzzle, p, 0)
          /\ bt_input' = Put(puzzle, p, 0)
          /\ bt_work' = Put(puzzle, p, 0)
    /\ bt_fn' = "_has_unique_solution"
    /\ bt_stack' = <<>>
    /\ bt_count' = 0
    /\ bt_pc' = "call"
    /\ bt_ret' = Ret(FALSE, NoGrid)
    /\ bt_result' = Ret(FALSE, NoGrid)
    /\ gen_pc' = "check"
    /\ UNCHANGED <<target_tier, max_attempts, seed, attempt, cell_order,
                   cell_no, empty_count, gen_result, gen_call, first_call,
                   drivervars, appvars, filevars>>

\* a cell loop without the break at the tier's upper bound
KeepNoBreak ==
    /\ gen_pc = "check"
    /\ bt_pc = "done"
    /\ bt_result.ok
    /\ empty_count' = empty_count + 1
    /\ cell_no' = cell_no + 1
    /\ gen_pc' = "punch"
    /\ UNCHANGED <<target_tier, max_attempts, seed, attempt, puzzle,
                   cell_order, saved, gen_result, gen_call, first_call,
                   drivervars, searchvars, appvars, filevars>>

\* the puzzle still has a unique solution: the cell stays cleared, and the
\* cell loop breaks when empty_count reaches empty_max
Keep ==
    /\ gen_pc = "check"
    /\ bt_pc = "done"
    /\ bt_result.ok
    /\ empty_count' = empty_count + 1
    /\ IF empty_count + 1 >= empty_max
       THEN gen_pc' = "punched" /\ UNCHANGED cell_no
       ELSE gen_pc' = "punch" /\ cell_no' = cell_no + 1
    /\ UNCHANGED <<target_tier, max_attempts, seed, attempt, puzzle,
                   cell_order, saved, gen_result, gen_call, first_call,
                   drivervars, searchvars, appvars, filevars>>

\* a cell loop that leaves the cell cleared whatever the uniqueness test says
RestoreNothing ==
    /\ gen_pc = "check"
    /\ bt_pc = "done"
    /\ ~ bt_result.ok
    /\ cell_no' = cell_no + 1
    /\ gen_pc' = "punch"
    /\ UNCHANGED <<target_tier, max_attempts, seed, attempt, puzzle,
                   cell_order, empty_count, saved, gen_result, gen_call,
                   first_call, drivervars, searchvars, appvars, filevars>>

\* removing the cell breaks uniqueness: restore it
Restore ==
    /\ gen_pc = "check"
    /\ bt_pc = "done"
    /\ ~ bt_result.ok
    /\ puzzle' = Put(puzzle, cell_order[cell_no], saved)
    /\ cell_no' = cell_no + 1
    /\ gen_pc' = "punch"
    /\ UNCHANGED <<target_tier, max_attempts, seed, attempt, cell_order,
                   empty_count, saved, gen_result, gen_call, first_call,
                   drivervars, searchvars, appvars, filevars>>

\* the cell loop has visited every cell
LoopEnd ==
    /\ gen_pc = "punch"
    /\ cell_no > Len(cell_order)
    /\ gen_pc' = "punched"
    /\ UNCHANGED <<target_tier, max_attempts, seed, attempt, puzzle,
                   cell_order, cell_no, empty_count, saved, gen_result,
                   gen_call, first_call, drivervars, searchvars, appvars, filevars>>

\* if empty_count < empty_min: continue
TooFew ==
    /\ gen_pc = "punched"
    /\ empty_count < empty_min
    /\ gen_pc' = "for"
    /\ UNCHANGED <<target_tier, max_attempts, seed, attempt, puzzle,
                   cell_order, cell_no, empty_count, saved, gen_result,
                   gen_call, first_call, drivervars, searchvars, appvars, filevars>>

\* tier = _rate_difficulty(puzzle): the rater builds a Grid of the puzzle
Rate ==
    /\ gen_pc = "punched"
    /\ empty_count >= empty_min
    /\ driver' = "rate"
    /\ initial_values' = puzzle
    /\ values' = Grid(puzzle).values
    /\ givens' = Grid(puzzle).givens
    /\ candidates' = Grid(puzzle).candidates
    /\ pc' = "start"
    /\ pos' = 1
    /\ steps' = <<>>
    /\ max_tier' = 0
    /\ stuck' = FALSE
    /\ conflict_cells' = {}
    /\ rated' = -1
    /\ gen_pc' = "rate"
    /\ UNCHANGED <<run, first_run, searchvars, appvars, filevars>>
    /\ UNCHANGED <<target_tier, max_attempts, seed, attempt, puzzle,
                   cell_order, cell_no, empty_count, saved, gen_result,
                   gen_call, first_call>>

\* if acceptable: return puzzle
Accept ==
    /\ gen_pc = "rate"
    /\ pc = "done"
    /\ acceptable(rated, target_tier)
    /\ gen_result' = Ret(TRUE, puzzle)
    /\ gen_pc' = "done"
    /\ UNCHANGED <<target_tier, max_attempts, seed, attempt, puzzle,
                   cell_order, cell_no, empty_count, saved, gen_call,
                   first_call, drivervars, searchvars, appvars, filevars>>

\* the puzzle is not acceptable: on to the next attempt
Reject ==
    /\ gen_pc = "rate"
    /\ pc = "done"
    /\ ~ acceptable(rated, target_tier)
    /\ gen_pc' = "for"
    /\ UNCHANGED <<target_tier, max_attempts, seed, attempt, puzzle,
                   cell_order, cell_no, empty_count, saved, gen_result,
                   gen_call, first_call, drivervars, searchvars, appvars, filevars>>

\* the steps of a call of generate_puzzle: its own, those of
\* _has_unique_solution and those of _rate_difficulty.  No puzzle of
\* GenInputs leaves the rater stuck, so NoStep, with which it gives up, is
\* not among them
GenNext ==
    \/ NextAttempt \/ GiveUp \/ Clear \/ Keep \/ Restore \/ LoopEnd
    \/ TooFew \/ Rate \/ Accept \/ Reject
    \/ Found \/ DeadEnd \/ Descend \/ Unwind \/ NextDigit \/ Exhausted
    \/ Return
    \/ Start \/ WhileExit \/ Miss \/ Fire

GenSpec == GenInit /\ [][GenNext]_vars

\* a second call that goes on counting the attempts where the first call
\* stopped
CallAgainKeepsAttempts ==
    /\ gen_pc = "done"
    /\ gen_call = 1
    /\ gen_call' = 2
    /\ first_call' = [max_attempts |-> max_attempts, attempt |-> attempt,
                      result |-> gen_result]
    /\ max_attempts' \in 0..Len(randint(seed))
    /\ gen_pc' = "for"
    /\ puzzle' = NoGrid
    /\ cell_order' = <<>>
    /\ cell_no' = 1
    /\ empty_count' = 0
    /\ saved' = 0
    /\ gen_result' = Ret(FALSE, NoGrid)
    /\ UNCHANGED <<target_tier, seed, attempt, drivervars, searchvars, appvars, filevars>>

\* generate_puzzle is called a second time with the same target_tier and
\* the same seed, and with any max_attempts for which the attempt seeds are
\* listed: range(max_attempts) is empty when max_attempts is 0
CallAgain ==
    /\ gen_pc = "done"
    /\ gen_call = 1
    /\ gen_call' = 2
    /\ first_call' = [max_attempts |-> max_attempts, attempt |-> attempt,
                      result |-> gen_result]
    /\ max_attempts' \in 0..Len(randint(seed))
    /\ gen_pc' = "for"
    /\ attempt' = 0
    /\ puzzle' = NoGrid
    /\ cell_order' = <<>>
    /\ cell_no' = 1
    /\ empty_count' = 0
    /\ saved' = 0
    /\ gen_result' = Ret(FALSE, NoGrid)
    /\ UNCHANGED <<target_tier, seed, drivervars, searchvars, appvars, filevars>>

\* the first of two calls
TwoCallInit ==
    /\ GenInit
    /\ [target_tier |-> target_tier, max_attempts |-> max_attempts,
        seed |-> seed] \in TwoCallInputs

TwoCallNext == GenNext \/ CallAgain

TwoCallSpec == TwoCallInit /\ [][TwoCallNext]_vars

\* generate_puzzle at the end of the cell loop of its first attempt
PunchedInit ==
    /\ DriverIdle
    /\ SearchIdle
    /\ AppIdle
    /\ FileIdle
    /\ \E in \in PunchedStates :
          /\ target_tier = in.target_tier
          /\ max_attempts = in.max_attempts
          /\ seed = in.seed
          /\ puzzle = in.puzzle
          /\ cell_no = in.cell_no
          /\ empty_count = in.empty_count
          /\ saved = in.saved
    /\ cell_order = shuffle(randint(seed)[1])
    /\ gen_pc = "punched"
    /\ attempt = 1
    /\ gen_result = Ret(FALSE, NoGrid)
    /\ gen_call = 1
    /\ first_call = [max_attempts |-> 0, attempt |-> 0,
                     result |-> Ret(FALSE, NoGrid)]

\* the rest of the call: the puzzle is rated, with a rater that may give up,
\* and accepted or rejected
PunchedNext ==
    \/ Rate \/ Accept \/ Reject \/ GiveUp
    \/ Start \/ WhileExit \/ Miss \/ Fire \/ NoStep

PunchedSpec == PunchedInit /\ [][PunchedNext]_vars

----------------------------------------------------------------------------
(* Properties *)

EmptyCount(vals) == Cardinality({p \in Cells : vals[p[1]][p[2]] = 0})

\* the deepest search the uniqueness test is evaluated to: it nests once
\* for every empty cell
MaxSearchCells == 40

\* the boards that have exactly one solution, by _has_unique_solution, and
\* that solution, by _bt_solve
UniquelySolvable ==
    {b \in Boards : EmptyCount(b) <= MaxSearchCells /\ _has_unique_solution(b)}

SolutionOf == [b \in UniquelySolvable |-> CHOOSE g \in _bt_solve(b) : TRUE]

\* a step agrees with the solved grid S
Consistent(step, S) ==
    /\ \A i \in 1..Len(step.placements) :
          S[step.placements[i][1]][step.placements[i][2]]
              = step.placements[i][3]
    /\ \A e \in step.eliminations : S[e[1]][e[2]] # e[3]

\* the digits placed in the row, the column and the box of p
HouseDigits(vals, p) == {vals[q[1]][q[2]] : q \in all_peers(p[1], p[2])} \ {0}

\* some house holds a digit twice
HouseRepeats(vals) ==
    \E h \in 1..27 : \E i \in 1..9, j \in 1..9 :
        /\ i < j
        /\ vals[get_houses[h].cells[i][1]][get_houses[h].cells[i][2]] # 0
        /\ vals[get_houses[h].cells[i][1]][get_houses[h].cells[i][2]]
             = vals[get_houses[h].cells[j][1]][get_houses[h].cells[j][2]]

\* the digits that the eliminations of the steps applied so far name for p
Eliminated(p) ==
    {d \in Digits : \E i \in 1..Len(steps) :
                        <<p[1], p[2], d>> \in steps[i].eliminations}

TotalCandidates(cands) ==
    Cardinality({x \in Idx \X Idx \X Digits : x[3] \in cands[x[1]][x[2]]})

NonEmpty(step) == step.placements # <<>> \/ step.eliminations # {}

\* the registry position of the detector that emits steps of this name
RegistryPosition(strategy) ==
    CHOOSE k \in 1..21 :
        \/ ALL_STRATEGIES[k] = strategy
        \/ k = 10 /\ strategy \in {"Pointing Pair", "Pointing Triple"}

TierOfPosition(k) ==
    IF k <= 3 THEN 1 ELSE IF k <= 11 THEN 2 ELSE IF k <= 16 THEN 3 ELSE 4

\* C1: on a puzzle with exactly one solution S every emitted step agrees
\* with S (each placement puts the digit of S, no elimination removes the
\* digit of S), and when the driver stops stuck the backtracker completes
\* the partial grid to S.
C1_StepsConsistentWithSolution ==
    initial_values \in UniquelySolvable =>
        LET S == SolutionOf[initial_values]
        IN /\ \A i \in 1..Len(steps) : Consistent(steps[i], S)
           /\ (pc = "done" /\ stuck) => _bt_solve(values) = {S}

\* C2: after any sequence of applied steps every empty cell's candidate set
\* is exactly 1..9 minus the digits placed in its row, column and box.
C2_CandidatesAreHouseComplement ==
    \A p \in Cells :
        values[p[1]][p[2]] = 0 =>
            candidates[p[1]][p[2]] = Digits \ HouseDigits(values, p)

\* C2, amended: after any sequence of applied steps every empty cell's
\* candidate set is exactly 1..9 minus the digits placed in its row, column
\* and box, minus the digits that eliminations of the applied steps removed
\* from that cell.
C2_CandidatesAreHouseComplementLessEliminations ==
    \A p \in Cells :
        values[p[1]][p[2]] = 0 =>
            candidates[p[1]][p[2]]
                = (Digits \ HouseDigits(values, p)) \ Eliminated(p)

\* an elimination took a digit that no house of its (still empty) cell
\* holds, and placements were made as well
C2_Witness ==
    /\ \E i \in 1..Len(steps) : steps[i].placements # <<>>
    /\ \E i \in 1..Len(steps) : \E e \in steps[i].eliminations :
          /\ values[e[1]][e[2]] = 0
          /\ e[3] \notin HouseDigits(values, <<e[1], e[2]>>)

\* C3: from an initial board in which no house holds a digit twice, no
\* sequence of emitted and applied steps makes a row, column or box hold a
\* digit twice.
C3_NoHouseRepeatsADigit ==
    ~ HouseRepeats(initial_values) => ~ HouseRepeats(values)

\* C4: a step whose application takes the last candidate from a cell that
\* stays empty is refused (ContradictionDetected): the driver never gets
\* from apply_step a grid in which an empty cell has lost its last candidate.
C4_NoEmptyCellLosesItsLastCandidate ==
    [][\A p \in Cells :
          (values'[p[1]][p[2]] = 0 /\ candidates[p[1]][p[2]] # {})
              => candidates'[p[1]][p[2]] # {}]_vars

\* C5: when the initial values hold a digit twice in a row, column or box,
\* no driver emits a step.
C5_NoStepsOnInvalidBoard ==
    HouseRepeats(initial_values) => steps = <<>>

\* C6: a driver emits the step of the detector at registry position k only
\* when every detector at positions 1..k-1 returned no step on the same
\* grid, and after the step is applied the scan restarts at position 1.
C6_OrderingContract ==
    [][steps' # steps =>
          /\ steps' = Append(steps, Detector(pos, TheGrid))
          /\ \A j \in 1..(pos - 1) : Detector(j, TheGrid) = None
          /\ pos' = 1]_vars

\* a step of the 20th detector was emitted after the 19 before it passed,
\* and the scan is back at position 1
C6_Witness ==
    /\ steps # <<>>
    /\ steps[Len(steps)].strategy = "2-String Kite"
    /\ pc = "loop" /\ pos = 1

\* the work a driver still has before it: the empty cells and candidates of
\* the grid, then the registry entries left in the scan, then the entry step
Variant ==
    IF pc = "done" THEN 0
    ELSE 24 * (EmptyCount(values) + TotalCandidates(candidates))
         + (22 - pos) + (IF pc = "start" THEN 2 ELSE 1)

\* C7: every run of a driver ends after finitely many steps, solved or
\* stuck: each transition makes the natural number Variant smaller (so no
\* run goes on forever), the loop has a next transition wherever it stands,
\* and it ends only on a solved grid or stuck.
C7_DriverTerminates ==
    /\ [][Variant' < Variant]_vars
    /\ [](pc = "loop" => (pos = 22 \/ pos = 1 \/ ~ is_solved(TheGrid)))
    /\ [](pc = "done" => (is_solved(TheGrid) \/ stuck))

\* a run that ended solved after emitting steps, and was not stuck
C7_Witness ==
    pc = "done" /\ is_solved(TheGrid) /\ ~ stuck /\ Len(steps) > 20

\* C8: applying an emitted step to the grid it was computed on makes the
\* number of candidates, summed over all cells, strictly smaller.
C8_StepReducesCandidates ==
    [][steps' # steps =>
          TotalCandidates(candidates') < TotalCandidates(candidates)]_vars

\* C9: whatever a detector returns on a grid the driver reaches, it is no
\* step or a step with a placement or an elimination; so is every emitted
\* step.
C9_StepsAreNotEmpty ==
    /\ \A i \in 1..Len(steps) : NonEmpty(steps[i])
    /\ (pc = "loop" /\ pos = 1) =>
          \A k \in 1..21 :
              LET step == Detector(k, TheGrid)
              IN step = None \/ NonEmpty(step)

\* elimination-only and placement-only steps were emitted, among them one of
\* a set detector and one of Simple Coloring
C9_Witness ==
    /\ \E i \in 1..Len(steps) : steps[i].strategy = "Hidden Pair"
                                /\ steps[i].placements = <<>>
    /\ \E i \in 1..Len(steps) : steps[i].strategy = "Simple Coloring"
    /\ \E i \in 1..Len(steps) : steps[i].eliminations = {}

\* C10: the rater returns 0 when the driver is stuck, and otherwise the
\* largest tier of the steps it applied, where registry positions 1-3 are
\* tier 1, 4-11 tier 2, 12-16 tier 3 and 17-21 tier 4 (0 when it applied no
\* step).
C10_RaterResult ==
    (driver = "rate" /\ pc = "done") =>
        rated = IF stuck THEN 0
                ELSE Max({0} \cup
                         {TierOfPosition(RegistryPosition(steps[i].strategy)) :
                              i \in 1..Len(steps)})

\* the rater solved a board whose hardest step is of tier 3, after steps of
\* tier 1 and 2
C10_Witness ==
    /\ driver = "rate" /\ pc = "done" /\ ~ stuck /\ rated = 3
    /\ \E i \in 1..Len(steps) : steps[i].strategy = "Hidden Pair"
    /\ \E i \in 1..Len(steps) : steps[i].strategy = "Naked Single"

\* C11: the strategy of every emitted step is one of the 21 names of
\* ALL_STRATEGIES, the keys of STRATEGY_TIER.
C11_StrategyNamesInRegistry ==
    \A i \in 1..Len(steps) : steps[i].strategy \in DOMAIN STRATEGY_TIER

FullHousePlacements(grid) ==
    {x \in Idx \X Idx \X Digits :
        \E h \in 1..27 :
            /\ \A i \in 1..9 :
                  Val(grid, get_houses[h].cells[i]) = 0
                      <=> get_houses[h].cells[i] = <<x[1], x[2]>>
            /\ \E i \in 1..9 : get_houses[h].cells[i] = <<x[1], x[2]>>
            /\ \A i \in 1..9 : Val(grid, get_houses[h].cells[i]) # x[3]}

NakedSinglePlacements(grid) ==
    {x \in Idx \X Idx \X Digits :
        grid.values[x[1]][x[2]] = 0 /\ grid.candidates[x[1]][x[2]] = {x[3]}}

HiddenSinglePlacements(grid) ==
    {x \in Idx \X Idx \X Digits :
        /\ grid.values[x[1]][x[2]] = 0
        /\ x[3] \in grid.candidates[x[1]][x[2]]
        /\ \E h \in 1..27 :
              /\ \E i \in 1..9 : get_houses[h].cells[i] = <<x[1], x[2]>>
              /\ \A i \in 1..9 :
                    LET q == get_houses[h].cells[i]
                    IN (Val(grid, q) = 0 /\ x[3] \in Cand(grid, q))
                           => q = <<x[1], x[2]>>}

TierOnePlacements(k, grid) ==
    CASE k = 1 -> FullHousePlacements(grid)
      [] k = 2 -> NakedSinglePlacements(grid)
      [] k = 3 -> HiddenSinglePlacements(grid)

\* lowest row first, then lowest column, then lowest digit
TieBreakLeq(x, y) ==
    \/ x[1] < y[1]
    \/ x[1] = y[1] /\ x[2] < y[2]
    \/ x[1] = y[1] /\ x[2] = y[2] /\ x[3] <= y[3]

\* C13: the placement a Tier-1 detector (Full House, Naked Single, Hidden
\* Single) returns is, among all placements that detector could make on the
\* grid, the one with the lowest row, then the lowest column, then the
\* lowest digit.
C13_TierOneTieBreak ==
    (pc = "loop" /\ pos = 1) =>
        \A k \in 1..3 :
            LET step == Detector(k, TheGrid)
            IN step # None =>
                  \A y \in TierOnePlacements(k, TheGrid) :
                      TieBreakLeq(step.placements[1], y)

\* the digits a cell may take: those no cell of its row, column or box holds
Allowed(grid, p) == Digits \ HouseDigits(grid, p)

\* the grids that fill the empty cells at scan positions below k so that no
\* house repeats a digit among the filled cells
RECURSIVE Fill(_, _)
Fill(grid, k) ==
    IF k = 0 THEN {grid}
    ELSE LET p == <<(k - 1) \div 9, (k - 1) % 9>>
         IN IF grid[p[1]][p[2]] # 0 THEN Fill(grid, k - 1)
            ELSE UNION {{Put(g, k - 1, d) : d \in Allowed(g, p)} :
                            g \in Fill(grid, k - 1)}

\* the completions of a grid to a valid Sudoku
Completions(grid) == Fill(grid, 81)

\* every house of a filled grid holds each digit once
ValidSolution(grid) ==
    \A h \in 1..27 :
        {Val([values |-> grid], get_houses[h].cells[i]) : i \in 1..9} = Digits

\* C18: _has_unique_solution returns true exactly when the grid has one
\* completion to a valid Sudoku; its counter never exceeds 2 and once it is 2
\* the search neither fills another cell nor counts again; the caller's grid
\* stays as it was.
C18_UniqueIffOneCompletion ==
    /\ []((bt_fn = "_has_unique_solution" /\ bt_pc = "done") =>
            (bt_result.ok <=> Cardinality(Completions(bt_input)) = 1))
    /\ [](bt_fn = "_has_unique_solution" => bt_count <= 2)
    /\ [][(bt_fn = "_has_unique_solution" /\ bt_count = 2) =>
              (bt_work' = bt_work /\ bt_count' = bt_count)]_vars
    /\ [][bt_fn = "_has_unique_solution" => bt_input' = bt_input]_vars

\* the uniqueness test ended with false on a grid that has more than two
\* completions, having counted two
C18_Witness ==
    /\ bt_fn = "_has_unique_solution" /\ bt_pc = "done"
    /\ ~ bt_result.ok /\ bt_count = 2
    /\ Cardinality(Completions(bt_input)) > 2

\* C19: on a grid in which no house repeats a digit, the brute-force solver
\* (_bt_solve of the gui, solve_sudoku of sudosolv.py) returns a filled grid
\* in which every house holds each digit once and which agrees with the
\* input on every non-empty cell, or None (False); it returns None exactly
\* when the input has no completion.
C19_BruteForceSolves ==
    (bt_fn \in {"_bt_solve", "solve_sudoku"} /\ bt_pc = "done"
     /\ ~ HouseRepeats(bt_input)) =>
        /\ bt_result.ok =>
              /\ ValidSolution(bt_result.grid)
              /\ \A p \in Cells :
                    bt_input[p[1]][p[2]] # 0 =>
                        bt_result.grid[p[1]][p[2]] = bt_input[p[1]][p[2]]
        /\ ~ bt_result.ok <=> Completions(bt_input) = {}

\* _bt_solve returned a solution of a grid with 20 or more empty cells that
\* has several completions
C19_Witness ==
    /\ bt_fn = "_bt_solve" /\ bt_pc = "done" /\ bt_result.ok
    /\ EmptyCount(bt_input) >= 20
    /\ Cardinality(Completions(bt_input)) > 1

\* the number of candidates of the cell at scan position q
CandCount(grid, q) == Cardinality(Allowed(grid, <<q \div 9, q % 9>>))

EmptyAt(grid) == {q \in 0..80 : grid[q \div 9][q % 9] = 0}

\* the grid of the i-th call of the stack: the copy _bt_solve made for it,
\* or the grid worked on in place without the cells the calls inside it
\* have filled
FrameGrid(i) ==
    IF bt_fn = "_bt_solve" THEN bt_stack[i].grid
    ELSE LET inner == {bt_stack[j].cell : j \in (i + 1)..Len(bt_stack)}
         IN [r \in Idx |-> [c \in Idx |->
                IF 9 * r + c \in inner THEN 0 ELSE bt_work[r][c]]]

\* while the search goes on, every call in its loop has tried the candidates
\* of its cell from the lowest up to the digit that is in the cell now, and
\* no other digit
TriesAscending ==
    ~ (bt_pc = "ret" /\ bt_ret.ok) =>
        \A i \in 1..Len(bt_stack) :
            LET f == bt_stack[i]
                p == <<f.cell \div 9, f.cell % 9>>
                g == FrameGrid(i)
                d == g[p[1]][p[2]]
            IN /\ d \in Allowed(Put(g, f.cell, 0), p)
               /\ f.cands = {x \in Allowed(Put(g, f.cell, 0), p) : x > d}

Scanned(grid) ==
    {q \in EmptyAt(grid) :
        \A o \in EmptyAt(grid) : CandCount(grid, o) = 1 => q <= o}

Computed(f) == IF f = f THEN f ELSE f

\* the cells that share a house with a cell, and the houses as sets
Peers == Computed([p \in Cells |-> all_peers(p[1], p[2]) \ {p}])
HouseCells == Computed([h \in 1..27 |-> {get_houses[h].cells[i] : i \in 1..9}])
HousesOf == Computed([p \in Cells |-> {h \in 1..27 : p \in HouseCells[h]}])

\* the grid after every forced cell has taken its digit, again and again
\* until no cell is forced: a cell is forced when it may take one digit
\* only, or when it is the only cell of a house that may take a digit; not
\* ok when an empty cell may take no digit or is forced to two digits
RECURSIVE Propagate(_)
Propagate(grid) ==
    LET empty  == {p \in Cells : grid[p[1]][p[2]] = 0}
        cand   == Computed([p \in Cells |->
                      IF p \in empty
                      THEN Digits \ {grid[q[1]][q[2]] : q \in Peers[p]}
                      ELSE {}])
        forced == Computed([p \in Cells |->
                      IF p \notin empty THEN {}
                      ELSE (IF Cardinality(cand[p]) = 1 THEN cand[p] ELSE {})
                           \cup {d \in cand[p] :
                                    \E h \in HousesOf[p] :
                                        \A q \in HouseCells[h] \ {p} :
                                            d \notin cand[q]}])
    IN IF \E p \in empty : cand[p] = {} \/ Cardinality(forced[p]) > 1
       THEN [ok |-> FALSE, grid |-> grid]
       ELSE IF \A p \in empty : forced[p] = {}
       THEN [ok |-> TRUE, grid |-> grid]
       ELSE Propagate(Computed([r \in Idx |-> [c \in Idx |->
                IF forced[<<r, c>>] # {}
                THEN CHOOSE d \in Digits : forced[<<r, c>>] = {d}
                ELSE grid[r][c]]]))

\* the number of completions of a grid to a valid Sudoku, counted up to 2:
\* forced cells are filled first, then the count branches on the digits of
\* an empty cell with the fewest digits
RECURSIVE CompletionCount(_)
RECURSIVE CompletionSum(_, _, _)
CompletionSum(g, q, ds) ==
    IF ds = {} THEN 0
    ELSE LET d == CHOOSE x \in ds : \A y \in ds : x <= y
         IN CompletionCount(Put(g, q, d)) + CompletionSum(g, q, ds \ {d})

CompletionCount(grid) ==
    LET pr    == Propagate(Computed(grid))
        g     == pr.grid
        empty == {p \in Cells : g[p[1]][p[2]] = 0}
        n     == Computed([p \in Cells |->
                     Cardinality(Digits \ {g[q[1]][q[2]] : q \in Peers[p]})])
    IN IF ~ pr.ok \/ HouseRepeats(g) THEN 0
       ELSE IF empty = {} THEN 1
       ELSE LET p == CHOOSE q \in empty : \A x \in empty : n[q] <= n[x]
                m == CompletionSum(g, 9 * p[1] + p[2], Allowed(g, p))
            IN IF m > 2 THEN 2 ELSE m

\* C14: every puzzle generate_puzzle returns has exactly one solution, and so
\* has the puzzle after every iteration of the cell loop: a cell stays
\* cleared only if the puzzle still has a unique solution.
C14_PunchedPuzzleHasOneSolution ==
    /\ gen_pc \in {"punch", "punched"} => CompletionCount(puzzle) = 1
    /\ (gen_pc = "done" /\ gen_result.ok) =>
          /\ gen_result.grid = puzzle
          /\ CompletionCount(gen_result.grid) = 1

\* a puzzle is returned for which the cell loop restored cells
C14_Witness ==
    /\ gen_pc = "done" /\ gen_result.ok
    /\ EmptyCount(gen_result.grid) < cell_no
    /\ \E p \in Cells :
          /\ gen_result.grid[p[1]][p[2]] # 0
          /\ CompletionCount(Put(gen_result.grid, 9 * p[1] + p[2], 0)) = 2

\* the acceptance test as the specification states it
MeetsAcceptanceTest(tier, target) ==
    Abs(tier - target) <= 1 \/ (target = 4 /\ tier = 0)

\* C15: generate_puzzle returns a puzzle only if its rating meets the
\* acceptance test (|rated - target| <= 1, or target = 4 and rated = 0); the
\* puzzle of the first attempt whose rating meets it is returned; an attempt
\* is followed by another one only when it had too few empty cells or its
\* rating failed the test; None is returned only after max_attempts attempts.
C15_ReturnsFirstAcceptable ==
    /\ []((gen_pc = "done" /\ gen_result.ok) =>
            /\ pc = "done"
            /\ initial_values = gen_result.grid
            /\ MeetsAcceptanceTest(rated, target_tier))
    /\ [][(gen_pc = "rate" /\ pc = "done"
           /\ MeetsAcceptanceTest(rated, target_tier)) =>
              (gen_pc' = "done" /\ gen_result' = Ret(TRUE, puzzle))]_vars
    /\ [][(gen_pc # "for" /\ gen_pc' = "for") =>
              \/ gen_pc = "punched" /\ empty_count < empty_min
              \/ /\ gen_pc = "rate" /\ pc = "done"
                 /\ ~ MeetsAcceptanceTest(rated, target_tier)]_vars
    /\ [][attempt' # attempt =>
              (gen_pc = "for" /\ attempt' = attempt + 1)]_vars
    /\ []((gen_pc = "done" /\ ~ gen_result.ok) => attempt = max_attempts)

\* None is returned after the only attempt allowed: its puzzle was rated and
\* the rating failed the test
C15_Witness ==
    /\ gen_pc = "done" /\ ~ gen_result.ok
    /\ attempt = max_attempts /\ attempt > 0
    /\ pc = "done" /\ initial_values = puzzle
    /\ ~ MeetsAcceptanceTest(rated, target_tier)

\* the bounds on the number of empty cells as the specification states them
TierBounds == <<45..55, 55..62, 60..64, 64..70>>

\* C16: the number of empty cells of every puzzle generate_puzzle returns for
\* target tier t in 1..4 lies within the bounds of the tier, and the cell
\* loop never clears more cells than the tier's upper bound.
C16_EmptyCellsWithinTierBounds ==
    target_tier \in 1..4 =>
        /\ (gen_pc = "done" /\ gen_result.ok) =>
              EmptyCount(gen_result.grid) \in TierBounds[target_tier]
        /\ attempt > 0 =>
              \E n \in TierBounds[target_tier] : EmptyCount(puzzle) <= n

\* a puzzle with as many empty cells as the tier allows is returned: the
\* cell loop broke off before it had visited every cell
C16_Witness ==
    /\ gen_pc = "done" /\ gen_result.ok
    /\ target_tier \in 1..4
    /\ \A n \in TierBounds[target_tier] : n <= EmptyCount(gen_result.grid)
    /\ cell_no < Len(cell_order)

C22_GivensNeverChange ==
    givens = [r \in Idx |-> [c \in Idx |-> initial_values[r][c] # 0]]

\* steps with placements and steps with eliminations have been applied, and
\* a cell that was empty is filled
C22_Witness ==
    /\ \E i \in 1..Len(steps) : steps[i].placements # <<>>
    /\ \E i \in 1..Len(steps) : steps[i].eliminations # {}
    /\ \E p \in Cells : values[p[1]][p[2]] # 0 /\ ~ givens[p[1]][p[2]]

\* C23: an initial puzzle with no empty cell makes the driver emit no step,
\* and the rating it ends with is 0.
C23_SolvedPuzzleNoStepsRatedZero ==
    (pc = "done" /\ \A p \in Cells : initial_values[p[1]][p[2]] # 0) =>
        /\ steps = <<>>
        /\ driver \in {"rate", "gui"} => rated = 0

\* the gui worker has ended on an initial puzzle with no empty cell
C23_Witness ==
    /\ pc = "done" /\ driver = "gui"
    /\ \A p \in Cells : initial_values[p[1]][p[2]] # 0
    /\ rated = 0

\* C24: for a 9x9 grid of digits 0..9, writing it as nine lines of nine digits
\* (as _prompt_save_file does) and parsing the text with read_puzzle returns
\* the same grid, and writing that grid again gives the identical text.
C24_FileRoundTrip ==
    /\ file_pc \in {"save again", "done"} =>
          /\ file_read.ok
          /\ file_read.grid = file_values
    /\ file_pc = "done" =>
          /\ file_text = file_first
          /\ Len(file_text) = 90

\* a grid with a 9 and with empty cells was written, read and written again
C24_Witness ==
    /\ file_pc = "done"
    /\ file_read.ok
    /\ file_text # <<>>
    /\ \E p \in Cells : file_values[p[1]][p[2]] = 9
    /\ \E p \in Cells : file_values[p[1]][p[2]] = 0

\* C25: when find_2_string_kite returns a step on a grid that still admits
\* the solution S (every step applied before agrees with S), none of its
\* eliminations removes the digit that a cell holds in S.
C25_KiteEliminationsSound ==
    initial_values \in UniquelySolvable =>
        LET S == SolutionOf[initial_values]
        IN \A i \in 1..Len(steps) :
              (/\ steps[i].strategy = "2-String Kite"
               /\ \A j \in 1..(i - 1) : Consistent(steps[j], S)) =>
                  \A e \in steps[i].eliminations : S[e[1]][e[2]] # e[3]

\* C26: when a driver run on an initial board in which no house repeats a
\* digit ends with is_solved() true, the final grid is a valid Sudoku
\* solution (every row, column and box holds each digit 1..9 once) and every
\* given has kept its initial value.
C26_SolvedGridIsValid ==
    (/\ pc = "done"
     /\ is_solved(TheGrid)
     /\ ~ HouseRepeats(initial_values)) =>
        /\ ValidSolution(values)
        /\ \A p \in Cells :
              initial_values[p[1]][p[2]] # 0 =>
                  values[p[1]][p[2]] = initial_values[p[1]][p[2]]

\* C30: after construction and after any sequence of apply_step calls no
\* candidate set holds a digit that is placed in a peer of its cell, and the
\* candidate set of every filled cell is empty.
C30_CandidatesAvoidPlacedPeers ==
    \A p \in Cells :
        /\ candidates[p[1]][p[2]] \cap HouseDigits(values, p) = {}
        /\ values[p[1]][p[2]] # 0 => candidates[p[1]][p[2]] = {}

\* steps with placements and steps with eliminations were applied; a cell
\* filled by a step has no candidate and an empty cell has candidates left
C30_Witness ==
    /\ \E i \in 1..Len(steps) : steps[i].eliminations # {}
    /\ \E i \in 1..Len(steps) :
          /\ steps[i].placements # <<>>
          /\ candidates[steps[i].placements[1][1]][steps[i].placements[1][2]] = {}
    /\ \E p \in Cells : values[p[1]][p[2]] = 0 /\ candidates[p[1]][p[2]] # {}

\* C28: the difficulty the GUI publishes for an initial board (rate_puzzle of
\* the steps its worker computed) equals the value _rate_difficulty returns
\* for the same initial values.
C28_GuiDifficultyIsRating ==
    (run = 2 /\ driver = "gui" /\ pc = "done") => rated = first_run.rated

\* C21: whenever the computation is finished for the UI thread (_computing
\* false or _compute_ready true), steps, grid_states and difficulty are the
\* complete timeline of the initial_values loaded last, with
\* len(grid_states) = len(steps) + 1, also when load_puzzle was called while
\* an earlier worker thread was running.
C21_FinishedTimelineIsOfLoadedPuzzle ==
    (ui_pc # "idle" /\ (~ self._computing \/ self._compute_ready)) =>
        /\ Len(self.grid_states) = Len(self.steps) + 1
        /\ self.grid_states[1] = Grid(self.initial_values)
        /\ \A i \in 1..Len(self.steps) :
              self.grid_states[i + 1] =
                  apply_step(self.grid_states[i], self.steps[i])
        /\ self.stuck \/ is_solved(self.grid_states[Len(self.grid_states)])
        /\ self.difficulty = rate_puzzle(self.steps)

\* C27: whenever the UI thread evaluates grid_states[step_idx] in solve mode
\* (draw_cell, go_to_step), grid_states is not empty and
\* 0 <= step_idx < len(grid_states): no IndexError is raised.
C27_StepIndexWithinGridStates ==
    /\ ui_pc = "draw" =>
          /\ self.grid_states # <<>>
          /\ 0 <= self.step_idx /\ self.step_idx < Len(self.grid_states)
    /\ ui_pc # "raised"


\* C29: generate_puzzle returns a puzzle that the rater rates 0 (the driver is
\* stuck on it) only when target_tier is 4; for the target tiers 1, 2 and 3
\* the puzzle it returns is solved by the driver
C29_RatedZeroOnlyForTierFour ==
    (gen_pc = "done" /\ gen_result.ok) =>
        /\ rated = 0 => target_tier = 4
        /\ target_tier \in 1..3 => ~ stuck /\ is_solved(TheGrid)

====
